---- MODULE Spec2Model ----
(***************************************************************************)
(* Model of the football-data polling engine: MatchManager (registry of    *)
(* tracked teams, poll loop, match cache, event detection) and the rate    *)
(* limiter of FootballAPI.request.                                         *)
(*                                                                         *)
(* Dates are milliseconds since an arbitrary origin, as Date.now() and     *)
(* new Date(utcDate) are; a quotient such as (now - matchDate)/1000/60     *)
(* compared with a number of minutes is written as the comparison of the   *)
(* difference in milliseconds with that number of minutes in milliseconds. *)
(***************************************************************************)
EXTENDS Integers, Sequences, FiniteSets, TLC

VARIABLES
  trackedTeams,             \* MatchManager.trackedTeams: team id string -> set of devices
  matchCache,               \* MatchManager.matchCache: match id -> cached match state
  pollingState,             \* MatchManager.pollingState
  pollTimer,                \* MatchManager.pollTimer: a timer handle, or NoTimer (null)
  matchStartsSoonTriggered, \* MatchManager.matchStartsSoonTriggered: match id -> set of minutes
  timers,                   \* pending homey.setTimeout timers whose callback is poll()
  inflight,                 \* poll() calls suspended at `await this.api.getTodayMatches`
  now,                      \* the clock, Date.now()
  lastEvents,               \* events emitted by the handler that ran last, in emission order
  lastFetch,                \* the match list of that handler, if it was a cycle that ran to its end
  everEmitted,              \* history: one-shot and starts-soon events emitted so far
  emittedAgain,             \* history: those emitted a second time
  everMarked,               \* history: <<match id, marker>> of the markers seen true in the cache
  prevFetch,                \* history: the match list of the last cycle that ran to its end, or NoFetch
  registered,               \* history: <<team id, device>> registered and not unregistered since
  requestTimestamps,        \* FootballAPI.requestTimestamps
  sleepers,                 \* request() calls suspended at `await this.sleep(waitTime)`
  recorded,                 \* history: every request recorded, with its priority
  apiKey,                   \* FootballAPI.apiKey, or NoKey (not configured)
  sentKey,                  \* history: the X-Auth-Token of the request transmitted last
  outcome,                  \* history: how the last call of request() went on
  teamCache,                \* FootballAPI.teamCache: the codes of the competitions loaded, or NoCache
  teamCacheExpiry,          \* FootballAPI.teamCacheExpiry, or NoExpiry (null)
  cacheLoadingPromise,      \* FootballAPI.cacheLoadingPromise: the number of the load, or NoPromise
  loading,                  \* where the running doLoadTeamCache is suspended, or NoLoad
  awaiting,                 \* the number of loadTeamCache callers that await the load
  loadRuns,                 \* history: the number of runs of doLoadTeamCache
  returned,                 \* history: what loadTeamCache returned in the last step, to how many
  queryArg,                 \* a point query: getTeamLiveMatch or getTeamMatchToday, and its teamId
  queryResult,              \* what it returned
  dpsMatches,               \* argument of a direct determinePollingState call
  dpsResult                 \* its result

vars == <<trackedTeams, matchCache, pollingState, pollTimer, matchStartsSoonTriggered,
          timers, inflight, now, lastEvents, lastFetch, everEmitted, emittedAgain,
          everMarked, prevFetch,
          registered,
          requestTimestamps, sleepers, recorded, apiKey, sentKey, outcome,
          teamCache, teamCacheExpiry, cacheLoadingPromise, loading, awaiting,
          loadRuns, returned, queryArg, queryResult,
          dpsMatches, dpsResult>>

engineVars == <<trackedTeams, matchCache, pollingState, pollTimer,
                matchStartsSoonTriggered, timers, inflight, lastEvents, lastFetch,
                everEmitted, emittedAgain, everMarked, prevFetch, registered>>
rateVars == <<requestTimestamps, sleepers, recorded, apiKey, sentKey, outcome>>
teamVars == <<teamCache, teamCacheExpiry, cacheLoadingPromise, loading, awaiting,
              loadRuns, returned>>
queryVars == <<queryArg, queryResult>>
dpsVars == <<dpsMatches, dpsResult>>

(***************************************************************************)
(* lib/constants.js                                                        *)
(***************************************************************************)
RATE_LIMIT == 10
RATE_LIMIT_BUFFER == 2

MATCH_STATUS == {"SCHEDULED", "TIMED", "IN_PLAY", "PAUSED", "FINISHED",
                 "SUSPENDED", "POSTPONED", "CANCELLED", "AWARDED"}
LIVE_STATUSES == {"IN_PLAY", "PAUSED"}
UPCOMING_STATUSES == {"SCHEDULED", "TIMED"}
COMPLETED_STATUSES == {"FINISHED", "AWARDED"}

POLLING_INTERVALS ==
  [IDLE |-> 15 * 60 * 1000, PRE_MATCH |-> 5 * 60 * 1000, LIVE |-> 30 * 1000,
   PAUSED |-> 2 * 60 * 1000, POST_MATCH |-> 5 * 60 * 1000]
POLLING_STATE == {"IDLE", "PRE_MATCH", "LIVE", "PAUSED", "POST_MATCH"}

MATCH_SOON_THRESHOLDS == <<15, 30, 60, 120>>

\* the delay of the retry timer in poll()'s catch block
RETRY_DELAY == 60000
\* the width of the rate-limit window and the margin added to a wait
WINDOW_MS == 60000
WAIT_MARGIN_MS == 100

MINUTE == 60 * 1000
HOUR == 60 * 60 * 1000

\* null, for a timer handle and for a score of the API
NoTimer == 0
NoScore == -1
\* no cycle has run to its end yet
NoFetch == <<[id |-> 0]>>
\* an API key that is not configured (undefined or empty: !this.apiKey)
NoKey == ""
\* null, for the team directory and its expiry; undefined or null, for the
\* promise of the load in progress
NoCache == {"null"}
NoExpiry == 0
NoPromise == 0
\* no doLoadTeamCache is running; nothing was returned; no query was made
NoLoad == [next |-> 0, phase |-> "", wake |-> 0]
NoReturn == [n |-> 0, value |-> NoCache, load |-> NoPromise]
NoQuery == [fn |-> "", teamId |-> ""]
NoResult == [id |-> 0]

(***************************************************************************)
(* Team ids: trackedTeams is keyed by the string of the device data, the   *)
(* API gives numbers.  Number(id) and String(teamId) convert.              *)
(***************************************************************************)
TeamIdStrings == {"1", "2", "3"}

Number(id) ==
  CASE id = "1" -> 1 [] id = "2" -> 2 [] id = "3" -> 3

String(teamId) ==
  CASE teamId = 1 -> "1" [] teamId = 2 -> "2" [] teamId = 3 -> "3"

\* x ?? 0 on a score of the API
OrZero(x) == IF x = NoScore THEN 0 ELSE x

\* match.minute || 0: the API may leave the minute out
MinuteOrZero(match) == IF "minute" \in DOMAIN match THEN match.minute ELSE 0

(***************************************************************************)
(* Events.  One record per this.emit call.                                 *)
(***************************************************************************)
Event(name, match, teamId) ==
  [name |-> name, match |-> match.id, teamId |-> teamId,
   minutes |-> 0, home |-> OrZero(match.home), away |-> OrZero(match.away),
   state |-> ""]

\* an emitForTeam that does not look at trackedTeams
emitForTeam_Unfiltered(tt, teamId, ev) == <<ev>>

\* emitForTeam: emits only if String(teamId) is a key of trackedTeams
emitForTeam(tt, teamId, ev) ==
  IF String(teamId) \in DOMAIN tt THEN <<ev>> ELSE <<>>

\* emitForTeams([homeTeamId, awayTeamId], eventName, data)
emitForTeams(tt, name, match) ==
  emitForTeam(tt, match.homeTeam, Event(name, match, match.homeTeam))
    \o emitForTeam(tt, match.awayTeam, Event(name, match, match.awayTeam))

(***************************************************************************)
(* Match state                                                             *)
(***************************************************************************)
NoEvents ==
  [kickoffTriggered |-> FALSE, halftimeTriggered |-> FALSE,
   secondHalfTriggered |-> FALSE, extraTimeTriggered |-> FALSE,
   finishedTriggered |-> FALSE]

createMatchState(match, existingEvents) ==
  [id |-> match.id, status |-> match.status, utcDate |-> match.utcDate,
   homeScore |-> OrZero(match.home), awayScore |-> OrZero(match.away),
   homeTeamId |-> match.homeTeam, awayTeamId |-> match.awayTeam,
   minute |-> MinuteOrZero(match),
   events |-> existingEvents]

\* an emitMatchResult that takes equal scores for a home win
emitMatchResult_HomeOnEqual(tt, match) ==
  LET homeScore == OrZero(match.home)
      awayScore == OrZero(match.away)
  IN IF homeScore >= awayScore
       THEN emitForTeam(tt, match.homeTeam, Event("team_won", match, match.homeTeam))
              \o emitForTeam(tt, match.awayTeam, Event("team_lost", match, match.awayTeam))
     ELSE emitForTeam(tt, match.awayTeam, Event("team_won", match, match.awayTeam))
              \o emitForTeam(tt, match.homeTeam, Event("team_lost", match, match.homeTeam))

emitMatchResult(tt, match) ==
  LET homeScore == OrZero(match.home)
      awayScore == OrZero(match.away)
  IN IF homeScore > awayScore
       THEN emitForTeam(tt, match.homeTeam, Event("team_won", match, match.homeTeam))
              \o emitForTeam(tt, match.awayTeam, Event("team_lost", match, match.awayTeam))
     ELSE IF awayScore > homeScore
       THEN emitForTeam(tt, match.awayTeam, Event("team_won", match, match.awayTeam))
              \o emitForTeam(tt, match.homeTeam, Event("team_lost", match, match.homeTeam))
     ELSE emitForTeams(tt, "team_drew", match)

\* a first observation that does not look at PAUSED
processNewMatch_NoHalftime(tt, match) ==
  LET kick == match.status = "IN_PLAY"
      fin  == match.status \in {"FINISHED", "AWARDED"}
      ev == [NoEvents EXCEPT !.kickoffTriggered = kick,
                             !.finishedTriggered = fin]
  IN [state |-> createMatchState(match, ev),
      emitted |->
        (IF kick THEN emitForTeams(tt, "match_kickoff", match) ELSE <<>>)
        \o (IF fin THEN emitForTeams(tt, "match_finished", match)
                          \o emitMatchResult(tt, match)
                   ELSE <<>>)]

\* the branch of processMatchUpdates for a match with no cache entry
processNewMatch(tt, match) ==
  LET kick == match.status = "IN_PLAY"
      half == match.status = "PAUSED"
      fin  == match.status \in {"FINISHED", "AWARDED"}
      ev == [NoEvents EXCEPT !.kickoffTriggered = kick,
                             !.halftimeTriggered = half,
                             !.finishedTriggered = fin]
  IN [state |-> createMatchState(match, ev),
      emitted |->
        (IF kick THEN emitForTeams(tt, "match_kickoff", match) ELSE <<>>)
        \o (IF half THEN emitForTeams(tt, "halftime_started", match) ELSE <<>>)
        \o (IF fin THEN emitForTeams(tt, "match_finished", match)
                          \o emitMatchResult(tt, match)
                   ELSE <<>>)]

\* a handleStatusChange that takes every status other than PAUSED for an
\* upcoming one when the match goes to IN_PLAY
handleStatusChange_KickoffFromAny(tt, match, cached) ==
  LET ev == cached.events
      none == [events |-> ev, emitted |-> <<>>]
  IN CASE match.status = "IN_PLAY" ->
            IF cached.status = "PAUSED"
              THEN IF ~ev.secondHalfTriggered
                     THEN [events |-> [ev EXCEPT !.secondHalfTriggered = TRUE],
                           emitted |-> emitForTeams(tt, "second_half_started", match)]
                     ELSE none
            ELSE IF ~ev.kickoffTriggered
              THEN [events |-> [ev EXCEPT !.kickoffTriggered = TRUE],
                    emitted |-> emitForTeams(tt, "match_kickoff", match)]
            ELSE none
       [] match.status = "PAUSED" ->
            IF ~ev.halftimeTriggered
              THEN [events |-> [ev EXCEPT !.halftimeTriggered = TRUE],
                    emitted |-> emitForTeams(tt, "halftime_started", match)]
              ELSE none
       [] match.status \in {"FINISHED", "AWARDED"} ->
            IF ~ev.finishedTriggered
              THEN [events |-> [ev EXCEPT !.finishedTriggered = TRUE],
                    emitted |-> emitForTeams(tt, "match_finished", match)
                                  \o emitMatchResult(tt, match)]
              ELSE none
       [] OTHER -> none

\* handleStatusChange without the marker tests: every status change emits
handleStatusChange_NoLatch(tt, match, cached) ==
  LET ev == cached.events
      none == [events |-> ev, emitted |-> <<>>]
  IN CASE match.status = "IN_PLAY" ->
            IF cached.status \in UPCOMING_STATUSES
              THEN [events |-> [ev EXCEPT !.kickoffTriggered = TRUE],
                    emitted |-> emitForTeams(tt, "match_kickoff", match)]
            ELSE IF cached.status = "PAUSED"
              THEN [events |-> [ev EXCEPT !.secondHalfTriggered = TRUE],
                    emitted |-> emitForTeams(tt, "second_half_started", match)]
            ELSE none
       [] match.status = "PAUSED" ->
            [events |-> [ev EXCEPT !.halftimeTriggered = TRUE],
             emitted |-> emitForTeams(tt, "halftime_started", match)]
       [] match.status \in {"FINISHED", "AWARDED"} ->
            [events |-> [ev EXCEPT !.finishedTriggered = TRUE],
             emitted |-> emitForTeams(tt, "match_finished", match)
                           \o emitMatchResult(tt, match)]
       [] OTHER -> none

\* handleStatusChange: the markers after the call and what it emits
handleStatusChange(tt, match, cached) ==
  LET ev == cached.events
      none == [events |-> ev, emitted |-> <<>>]
  IN CASE match.status = "IN_PLAY" ->
            IF cached.status \in UPCOMING_STATUSES
              THEN IF ~ev.kickoffTriggered
                     THEN [events |-> [ev EXCEPT !.kickoffTriggered = TRUE],
                           emitted |-> emitForTeams(tt, "match_kickoff", match)]
                     ELSE none
            ELSE IF cached.status = "PAUSED"
              THEN IF ~ev.secondHalfTriggered
                     THEN [events |-> [ev EXCEPT !.secondHalfTriggered = TRUE],
                           emitted |-> emitForTeams(tt, "second_half_started", match)]
                     ELSE none
            ELSE none
       [] match.status = "PAUSED" ->
            IF ~ev.halftimeTriggered
              THEN [events |-> [ev EXCEPT !.halftimeTriggered = TRUE],
                    emitted |-> emitForTeams(tt, "halftime_started", match)]
              ELSE none
       [] match.status \in {"FINISHED", "AWARDED"} ->
            IF ~ev.finishedTriggered
              THEN [events |-> [ev EXCEPT !.finishedTriggered = TRUE],
                    emitted |-> emitForTeams(tt, "match_finished", match)
                                  \o emitMatchResult(tt, match)]
              ELSE none
       [] OTHER -> none

getResultState(teamScore, opponentScore) ==
  IF teamScore > opponentScore THEN "winning"
  ELSE IF teamScore < opponentScore THEN "losing"
  ELSE "drawing"

\* an emitResultStateChange without the test oldState === newState
emitResultStateChange_Always(tt, match, teamId, oldState, newState) ==
  emitForTeam(tt, teamId,
    [Event("match_result_changed", match, teamId) EXCEPT !.state = newState])

emitResultStateChange(tt, match, teamId, oldState, newState) ==
  IF oldState = newState THEN <<>>
  ELSE emitForTeam(tt, teamId,
         [Event("match_result_changed", match, teamId) EXCEPT !.state = newState])

\* a handleScoreChange that tells the scorer only
handleScoreChange_NoConceded(tt, match, cached, newHome, newAway) ==
  LET oldHomeState == getResultState(cached.homeScore, cached.awayScore)
      oldAwayState == getResultState(cached.awayScore, cached.homeScore)
      newHomeState == getResultState(newHome, newAway)
      newAwayState == getResultState(newAway, newHome)
  IN (IF newHome > cached.homeScore
        THEN emitForTeam(tt, match.homeTeam, Event("team_scored", match, match.homeTeam))
        ELSE <<>>)
     \o (IF newAway > cached.awayScore
           THEN emitForTeam(tt, match.awayTeam, Event("team_scored", match, match.awayTeam))
           ELSE <<>>)
     \o emitResultStateChange(tt, match, match.homeTeam, oldHomeState, newHomeState)
     \o emitResultStateChange(tt, match, match.awayTeam, oldAwayState, newAwayState)

handleScoreChange(tt, match, cached, newHome, newAway) ==
  LET oldHomeState == getResultState(cached.homeScore, cached.awayScore)
      oldAwayState == getResultState(cached.awayScore, cached.homeScore)
      newHomeState == getResultState(newHome, newAway)
      newAwayState == getResultState(newAway, newHome)
  IN (IF newHome > cached.homeScore
        THEN emitForTeam(tt, match.homeTeam, Event("team_scored", match, match.homeTeam))
               \o emitForTeam(tt, match.awayTeam, Event("team_conceded", match, match.awayTeam))
        ELSE <<>>)
     \o (IF newAway > cached.awayScore
           THEN emitForTeam(tt, match.awayTeam, Event("team_scored", match, match.awayTeam))
                  \o emitForTeam(tt, match.homeTeam, Event("team_conceded", match, match.homeTeam))
           ELSE <<>>)
     \o emitResultStateChange(tt, match, match.homeTeam, oldHomeState, newHomeState)
     \o emitResultStateChange(tt, match, match.awayTeam, oldAwayState, newAwayState)

\* the score-change detection without the test of the fetched status
detectScoreChange_AnyStatus(tt, match, cached) ==
  LET currentHome == OrZero(match.home)
      currentAway == OrZero(match.away)
  IN IF currentHome # cached.homeScore \/ currentAway # cached.awayScore
       THEN handleScoreChange(tt, match, cached, currentHome, currentAway)
       ELSE <<>>

\* the score-change detection of processMatchUpdates (only during live matches)
detectScoreChange(tt, match, cached) ==
  IF match.status \in LIVE_STATUSES
    THEN LET currentHome == OrZero(match.home)
             currentAway == OrZero(match.away)
         IN IF currentHome # cached.homeScore \/ currentAway # cached.awayScore
              THEN handleScoreChange(tt, match, cached, currentHome, currentAway)
              ELSE <<>>
    ELSE <<>>

\* one iteration of processMatchUpdates' loop
processMatch(tt, cache, match) ==
  IF match.id \notin DOMAIN cache
    THEN LET r == processNewMatch(tt, match)
         IN [cache |-> (match.id :> r.state) @@ cache, emitted |-> r.emitted]
    ELSE LET cached == cache[match.id]
             sc == IF cached.status # match.status
                     THEN handleStatusChange(tt, match, cached)
                     ELSE [events |-> cached.events, emitted |-> <<>>]
             goals == detectScoreChange(tt, match, cached)
         IN [cache |-> (match.id :> createMatchState(match, sc.events)) @@ cache,
             emitted |-> sc.emitted \o goals]

RECURSIVE processMatchUpdates(_, _, _)
processMatchUpdates(tt, cache, matches) ==
  IF matches = <<>> THEN [cache |-> cache, emitted |-> <<>>]
  ELSE LET r == processMatch(tt, cache, Head(matches))
           rest == processMatchUpdates(tt, r.cache, Tail(matches))
       IN [cache |-> rest.cache, emitted |-> r.emitted \o rest.emitted]

\* one iteration of processMatchUpdates' loop in which the k-th call of
\* this.emit throws: the events emitted before it, and the cache the
\* exception leaves.  The entry of a new match has been set before its
\* first event is emitted; a marker is assigned after the events of its
\* branch, on the cached object itself; the entry of a cached match is
\* replaced at the end of the iteration, which is not reached.
processMatchThrows(tt, cache, match, k) ==
  LET r == processMatch(tt, cache, match)
      before == SubSeq(r.emitted, 1, k - 1)
  IN IF match.id \notin DOMAIN cache
       THEN [cache |-> (match.id :> createMatchState(match, NoEvents)) @@ cache,
             emitted |-> before]
       ELSE LET cached == cache[match.id]
                sc == IF cached.status # match.status
                        THEN handleStatusChange(tt, match, cached)
                        ELSE [events |-> cached.events, emitted |-> <<>>]
            IN IF k <= Len(sc.emitted)
                 THEN [cache |-> cache, emitted |-> before]
                 ELSE [cache |-> [cache EXCEPT ![match.id].events = sc.events],
                       emitted |-> before]

\* processMatchUpdates in which the k-th call of this.emit throws
RECURSIVE processMatchUpdatesThrows(_, _, _, _)
processMatchUpdatesThrows(tt, cache, matches, k) ==
  LET r == processMatch(tt, cache, Head(matches))
  IN IF k <= Len(r.emitted)
       THEN processMatchThrows(tt, cache, Head(matches), k)
       ELSE LET rest == processMatchUpdatesThrows(tt, r.cache, Tail(matches),
                                                  k - Len(r.emitted))
            IN [cache |-> rest.cache, emitted |-> r.emitted \o rest.emitted]

(***************************************************************************)
(* "Match starts soon"                                                     *)
(***************************************************************************)
\* this.matchStartsSoonTriggered.get(match.id) || new Set()
triggeredSetOf(trig, id) == IF id \in DOMAIN trig THEN trig[id] ELSE {}

\* a loop over the thresholds that leaves out the instant at which the
\* kickoff is exactly threshold minutes away
RECURSIVE checkThresholds_Strict(_, _, _, _, _)
checkThresholds_Strict(tt, trig, match, untilMs, i) ==
  IF i > Len(MATCH_SOON_THRESHOLDS) THEN [trig |-> trig, emitted |-> <<>>]
  ELSE LET threshold == MATCH_SOON_THRESHOLDS[i]
           triggeredSet == triggeredSetOf(trig, match.id)
           fire == /\ untilMs < threshold * MINUTE
                   /\ untilMs > 0
                   /\ threshold \notin triggeredSet
           trig1 == IF fire
                      THEN (match.id :> (triggeredSet \cup {threshold})) @@ trig
                      ELSE trig
           out == IF fire
                    THEN emitForTeam(tt, match.homeTeam,
                           [Event("match_starts_soon", match, match.homeTeam)
                              EXCEPT !.minutes = threshold])
                         \o emitForTeam(tt, match.awayTeam,
                           [Event("match_starts_soon", match, match.awayTeam)
                              EXCEPT !.minutes = threshold])
                    ELSE <<>>
           rest == checkThresholds_Strict(tt, trig1, match, untilMs, i + 1)
       IN [trig |-> rest.trig, emitted |-> out \o rest.emitted]

\* the loop over MATCH_SOON_THRESHOLDS for one match, from index i on;
\* untilMs is matchDate - now
RECURSIVE checkThresholds(_, _, _, _, _)
checkThresholds(tt, trig, match, untilMs, i) ==
  IF i > Len(MATCH_SOON_THRESHOLDS) THEN [trig |-> trig, emitted |-> <<>>]
  ELSE LET threshold == MATCH_SOON_THRESHOLDS[i]
           triggeredSet == triggeredSetOf(trig, match.id)
           fire == /\ untilMs <= threshold * MINUTE
                   /\ untilMs > 0
                   /\ threshold \notin triggeredSet
           trig1 == IF fire
                      THEN (match.id :> (triggeredSet \cup {threshold})) @@ trig
                      ELSE trig
           out == IF fire
                    THEN emitForTeam(tt, match.homeTeam,
                           [Event("match_starts_soon", match, match.homeTeam)
                              EXCEPT !.minutes = threshold])
                         \o emitForTeam(tt, match.awayTeam,
                           [Event("match_starts_soon", match, match.awayTeam)
                              EXCEPT !.minutes = threshold])
                    ELSE <<>>
           rest == checkThresholds(tt, trig1, match, untilMs, i + 1)
       IN [trig |-> rest.trig, emitted |-> out \o rest.emitted]

RECURSIVE checkMatchStartsSoon(_, _, _, _)
checkMatchStartsSoon(tt, trig, matches, t) ==
  IF matches = <<>> THEN [trig |-> trig, emitted |-> <<>>]
  ELSE LET match == Head(matches)
           r == IF match.status \notin UPCOMING_STATUSES
                  THEN [trig |-> trig, emitted |-> <<>>]
                  ELSE checkThresholds(tt, trig, match, match.utcDate - t, 1)
           rest == checkMatchStartsSoon(tt, r.trig, Tail(matches), t)
       IN [trig |-> rest.trig, emitted |-> r.emitted \o rest.emitted]

(***************************************************************************)
(* cleanupOldMatches                                                       *)
(***************************************************************************)
currentMatchIds(currentMatches) ==
  {currentMatches[i].id : i \in 1..Len(currentMatches)}

\* the first loop: records of matches no longer in the list are deleted
cleanupTriggered(trig, currentMatches) ==
  [id \in DOMAIN trig \cap currentMatchIds(currentMatches) |-> trig[id]]

\* a test that takes the match for old at the very end of the two hours
isOldMatch_AtEnd(cached, t) ==
  /\ cached.status \in COMPLETED_STATUSES
  /\ cached.utcDate + 2 * HOUR <= t - 2 * HOUR

\* the test of the second loop: finished, and estimated end older than 2 hours
isOldMatch(cached, t) ==
  /\ cached.status \in COMPLETED_STATUSES
  /\ cached.utcDate + 2 * HOUR < t - 2 * HOUR

cleanupCache(cache, t) ==
  [id \in {k \in DOMAIN cache : ~isOldMatch(cache[k], t)} |-> cache[id]]

(***************************************************************************)
(* determinePollingState                                                   *)
(***************************************************************************)
someMatch(matches, P(_)) == \E i \in 1..Len(matches) : P(matches[i])

hasLiveMatch(matches) ==
  LET isLive(m) == m.status = "IN_PLAY"
  IN someMatch(matches, isLive)

hasPausedMatch(matches) ==
  LET isPaused(m) == m.status = "PAUSED"
  IN someMatch(matches, isPaused)

\* kickoff passed (0-120 min ago) but status not updated yet
hasProbablyLive(matches, t) ==
  LET probablyLive(m) ==
        /\ m.status \in UPCOMING_STATUSES
        /\ t - m.utcDate > 0
        /\ t - m.utcDate < 120 * MINUTE
  IN someMatch(matches, probablyLive)

\* within 15 minutes of the estimated end, kickoff + 2 hours
hasRecentlyFinished(matches, t) ==
  LET recentlyFinished(m) ==
        /\ m.status \in COMPLETED_STATUSES
        /\ t - (m.utcDate + 2 * HOUR) >= 0
        /\ t - (m.utcDate + 2 * HOUR) < 15 * MINUTE
  IN someMatch(matches, recentlyFinished)

\* kickoff within the next 2 hours
hasUpcoming(matches, t) ==
  LET upcoming(m) ==
        /\ m.status \in UPCOMING_STATUSES
        /\ m.utcDate - t <= 2 * HOUR
        /\ m.utcDate - t > 0
  IN someMatch(matches, upcoming)

determinePollingState(matches, t) ==
  IF hasLiveMatch(matches) THEN "LIVE"
  ELSE IF hasPausedMatch(matches) THEN "PAUSED"
  ELSE IF hasProbablyLive(matches, t) THEN "LIVE"
  ELSE IF hasRecentlyFinished(matches, t) THEN "POST_MATCH"
  ELSE IF hasUpcoming(matches, t) THEN "PRE_MATCH"
  ELSE "IDLE"

\* getPollingInterval: POLLING_INTERVALS[this.pollingState] || POLLING_INTERVALS.IDLE
getPollingInterval(state) ==
  IF state \in DOMAIN POLLING_INTERVALS
    THEN POLLING_INTERVALS[state]
    ELSE POLLING_INTERVALS.IDLE

(***************************************************************************)
(* Timers and the poll loop                                                *)
(***************************************************************************)
timerIds(ts) == {h.id : h \in ts}

\* homey.setTimeout returns a handle no pending timer has
newHandle(ts) == CHOOSE i \in 1..(Cardinality(ts) + 1) : i \notin timerIds(ts)

\* homey.clearTimeout(handle): a handle that has fired is not pending any more
clearTimeout(ts, handle) == {h \in ts : h.id # handle}

\* scheduleNextPoll: the pending timers and pollTimer after the call
scheduleNextPoll(ts, pt, state) ==
  LET ts1 == IF pt # NoTimer THEN clearTimeout(ts, pt) ELSE ts
      id == newHandle(ts1)
  IN [timers |-> ts1 \cup {[id |-> id, delay |-> getPollingInterval(state)]},
      pollTimer |-> id]

\* a catch block that reschedules with scheduleNextPoll instead
scheduleRetry_ByState(ts, pt) == scheduleNextPoll(ts, pt, pollingState)

\* a catch block that calls scheduleNextPoll and arms the retry as well
scheduleRetry_AndReschedule(ts, pt) ==
  LET s == scheduleNextPoll(ts, pt, pollingState)
      id == newHandle(s.timers)
  IN [timers |-> s.timers \cup {[id |-> id, delay |-> RETRY_DELAY]},
      pollTimer |-> id]

\* a catch block that arms nothing
scheduleRetry_GivesUp(ts, pt) == [timers |-> ts, pollTimer |-> pt]

\* the catch block of poll(): this.pollTimer = setTimeout(() => this.poll(), 60000)
scheduleRetry(ts, pt) ==
  LET id == newHandle(ts)
  IN [timers |-> ts \cup {[id |-> id, delay |-> RETRY_DELAY]},
      pollTimer |-> id]

\* stopPolling
stopPolling(ts, pt) ==
  IF pt # NoTimer
    THEN [timers |-> clearTimeout(ts, pt), pollTimer |-> NoTimer]
    ELSE [timers |-> ts, pollTimer |-> pt]

\* poll() up to the point where it waits for something other than itself:
\* with no tracked team it reschedules and returns; otherwise it calls
\* getTodayMatches(pollingState === LIVE) and is suspended, unless request()
\* throws at once for want of an API key, which takes poll() to its catch block
pollBegin(tt, ts, pt, fl, state) ==
  IF DOMAIN tt = {}
    THEN LET s == scheduleNextPoll(ts, pt, state)
         IN [timers |-> s.timers, pollTimer |-> s.pollTimer, inflight |-> fl]
    ELSE IF apiKey = NoKey
      THEN LET s == scheduleRetry(ts, pt)
           IN [timers |-> s.timers, pollTimer |-> s.pollTimer, inflight |-> fl]
    ELSE [timers |-> ts, pollTimer |-> pt,
          inflight |-> Append(fl, [trackedTeamIds |-> DOMAIN tt,
                                   highPriority |-> state = "LIVE"])]

\* relevantMatches: the matches of a tracked team (ids compared as numbers)
relevantMatches(allMatches, trackedTeamIds) ==
  LET trackedTeamIdsNumeric == {Number(id) : id \in trackedTeamIds}
      relevant(match) == \/ match.homeTeam \in trackedTeamIdsNumeric
                         \/ match.awayTeam \in trackedTeamIdsNumeric
  IN SelectSeq(allMatches, relevant)

RemoveAt(seq, i) == SubSeq(seq, 1, i - 1) \o SubSeq(seq, i + 1, Len(seq))

(***************************************************************************)
(* History of the events that are to be emitted once                       *)
(***************************************************************************)
OneShotNames == {"match_kickoff", "halftime_started", "second_half_started",
                 "match_finished", "team_won", "team_lost", "team_drew",
                 "match_starts_soon"}

EventKey(e) == <<e.name, e.match, e.teamId, e.minutes>>

\* the markers that are true in a cache
MarkedIn(cache) ==
  {<<id, marker>> \in (DOMAIN cache) \X (DOMAIN NoEvents) : cache[id].events[marker]}

OneShotKeys(evs) ==
  {EventKey(evs[i]) : i \in {j \in 1..Len(evs) : evs[j].name \in OneShotNames}}

RepeatedKeys(evs) ==
  {EventKey(evs[i]) : i \in {j \in 1..Len(evs) :
      /\ evs[j].name \in OneShotNames
      /\ \E k \in 1..(j - 1) : EventKey(evs[k]) = EventKey(evs[j])}}

(***************************************************************************)
(* Actions of MatchManager                                                 *)
(***************************************************************************)
\* the number of poll() activations alive: suspended calls and pending timers
Threads == Len(inflight) + Cardinality(timers)

MaxThreads == 2

\* registerDevice, but for the request() of the poll() it may start
registerDeviceEngine(teamId, device) ==
  LET devices == IF teamId \in DOMAIN trackedTeams THEN trackedTeams[teamId] ELSE {}
      tt == (teamId :> (devices \cup {device})) @@ trackedTeams
      start == Cardinality(DOMAIN tt) = 1 /\ pollTimer = NoTimer
      p == pollBegin(tt, timers, pollTimer, inflight, pollingState)
  IN /\ start => Threads < MaxThreads
     /\ trackedTeams' = tt
     /\ IF start
          THEN /\ timers' = p.timers
               /\ pollTimer' = p.pollTimer
               /\ inflight' = p.inflight
          ELSE UNCHANGED <<timers, pollTimer, inflight>>
     /\ registered' = registered \cup {<<teamId, device>>}
     /\ lastEvents' = <<>>
     /\ lastFetch' = <<>>
     /\ UNCHANGED <<matchCache, pollingState, matchStartsSoonTriggered, now,
                    everEmitted, emittedAgain, everMarked, prevFetch, teamVars, queryVars, dpsVars>>

\* registerDevice with the rate limiter left out of the picture
registerDevice(teamId, device) ==
  /\ registerDeviceEngine(teamId, device)
  /\ UNCHANGED rateVars

\* an unregisterDevice that drops the team with its first device
removeDevice_DropsTeam(tt, teamId, device) ==
  [k \in DOMAIN tt \ {teamId} |-> tt[k]]

\* unregisterDevice on the registry: the device leaves the team's set, and a
\* team whose set becomes empty is deleted
removeDevice(tt, teamId, device) ==
  IF teamId \in DOMAIN tt
    THEN IF tt[teamId] \ {device} = {}
           THEN [k \in DOMAIN tt \ {teamId} |-> tt[k]]
           ELSE [tt EXCEPT ![teamId] = @ \ {device}]
    ELSE tt

unregisterDevice(teamId, device) ==
  LET tt == removeDevice(trackedTeams, teamId, device)
      s == IF DOMAIN tt = {}
             THEN stopPolling(timers, pollTimer)
             ELSE [timers |-> timers, pollTimer |-> pollTimer]
  IN /\ trackedTeams' = tt
     /\ timers' = s.timers
     /\ pollTimer' = s.pollTimer
     /\ registered' = registered \ {<<teamId, device>>}
     /\ lastEvents' = <<>>
     /\ lastFetch' = <<>>
     /\ UNCHANGED <<matchCache, pollingState, matchStartsSoonTriggered, inflight, now,
                    everEmitted, emittedAgain, everMarked, prevFetch, rateVars, teamVars, queryVars, dpsVars>>

\* a pending timer fires: its callback calls poll(); but for the request()
TimerFireEngine(h) ==
  LET p == pollBegin(trackedTeams, timers \ {h}, pollTimer, inflight, pollingState)
  IN /\ h \in timers
     /\ timers' = p.timers
     /\ pollTimer' = p.pollTimer
     /\ inflight' = p.inflight
     /\ lastEvents' = <<>>
     /\ lastFetch' = <<>>
     /\ UNCHANGED <<trackedTeams, matchCache, pollingState, matchStartsSoonTriggered,
                    now, everEmitted, emittedAgain, everMarked, prevFetch, registered, teamVars, queryVars, dpsVars>>

\* the same with the rate limiter left out of the picture
TimerFire(h) ==
  /\ TimerFireEngine(h)
  /\ UNCHANGED rateVars

\* a poll() that schedules the next cycle before it updates pollingState
pollComplete_StaleState(i, allMatches) ==
  LET cycle == inflight[i]
      relevant == relevantMatches(allMatches, cycle.trackedTeamIds)
      upd == processMatchUpdates(trackedTeams, matchCache, relevant)
      soon == checkMatchStartsSoon(trackedTeams, matchStartsSoonTriggered, relevant, now)
      newState == determinePollingState(relevant, now)
      s == scheduleNextPoll(timers, pollTimer, pollingState)
  IN /\ i \in 1..Len(inflight)
     /\ matchCache' = cleanupCache(upd.cache, now)
     /\ matchStartsSoonTriggered' = cleanupTriggered(soon.trig, relevant)
     /\ pollingState' = newState
     /\ timers' = s.timers
     /\ pollTimer' = s.pollTimer
     /\ inflight' = RemoveAt(inflight, i)
     /\ lastEvents' = upd.emitted \o soon.emitted
     /\ lastFetch' = allMatches
     /\ UNCHANGED <<trackedTeams, now, registered, rateVars, teamVars, queryVars, dpsVars>>

\* getTodayMatches resolves with allMatches: the rest of poll()'s try block
pollComplete(i, allMatches) ==
  LET cycle == inflight[i]
      relevant == relevantMatches(allMatches, cycle.trackedTeamIds)
      upd == processMatchUpdates(trackedTeams, matchCache, relevant)
      soon == checkMatchStartsSoon(trackedTeams, matchStartsSoonTriggered, relevant, now)
      newState == determinePollingState(relevant, now)
      s == scheduleNextPoll(timers, pollTimer, newState)
  IN /\ i \in 1..Len(inflight)
     /\ matchCache' = cleanupCache(upd.cache, now)
     /\ matchStartsSoonTriggered' = cleanupTriggered(soon.trig, relevant)
     /\ pollingState' = newState
     /\ timers' = s.timers
     /\ pollTimer' = s.pollTimer
     /\ inflight' = RemoveAt(inflight, i)
     /\ lastEvents' = upd.emitted \o soon.emitted
     /\ lastFetch' = allMatches
     /\ UNCHANGED <<trackedTeams, now, registered, rateVars, teamVars, queryVars, dpsVars>>

PollSuccess(i, allMatches) ==
  /\ pollComplete(i, allMatches)
  /\ UNCHANGED <<everEmitted, emittedAgain, everMarked, prevFetch>>

\* the same step, with the history of the once-only events kept
PollSuccessLogged(i, allMatches) ==
  /\ pollComplete(i, allMatches)
  /\ everEmitted' = everEmitted \cup OneShotKeys(lastEvents')
  /\ emittedAgain' = emittedAgain \cup (everEmitted \cap OneShotKeys(lastEvents'))
                       \cup RepeatedKeys(lastEvents')
  /\ everMarked' = everMarked \cup MarkedIn(matchCache')
  /\ UNCHANGED prevFetch

\* the same step, with the match list of the cycle kept for the next one
PollSuccessRemembered(i, allMatches) ==
  /\ pollComplete(i, allMatches)
  /\ prevFetch' = allMatches
  /\ UNCHANGED <<everEmitted, emittedAgain, everMarked>>

\* a failure that gives the quota of the request back
PollFailure_Refund(i) ==
  LET s == scheduleRetry(timers, pollTimer)
  IN /\ i \in 1..Len(inflight)
     /\ timers' = s.timers
     /\ pollTimer' = s.pollTimer
     /\ inflight' = RemoveAt(inflight, i)
     /\ lastEvents' = <<>>
     /\ lastFetch' = <<>>
     /\ requestTimestamps' = SubSeq(requestTimestamps, 1, Len(requestTimestamps) - 1)
     /\ UNCHANGED <<trackedTeams, matchCache, pollingState, matchStartsSoonTriggered,
                    now, everEmitted, emittedAgain, everMarked, prevFetch, registered, sleepers, recorded,
                    apiKey, sentKey, outcome, teamVars, queryVars, dpsVars>>

\* getTodayMatches rejects: poll()'s catch block
PollFailure(i) ==
  LET s == scheduleRetry(timers, pollTimer)
  IN /\ i \in 1..Len(inflight)
     /\ timers' = s.timers
     /\ pollTimer' = s.pollTimer
     /\ inflight' = RemoveAt(inflight, i)
     /\ lastEvents' = <<>>
     /\ lastFetch' = <<>>
     /\ UNCHANGED <<trackedTeams, matchCache, pollingState, matchStartsSoonTriggered,
                    now, everEmitted, emittedAgain, everMarked, prevFetch, registered, rateVars, teamVars, queryVars, dpsVars>>

\* getTodayMatches resolves with allMatches and the k-th call of this.emit in
\* processMatchUpdates throws (a listener throws): poll() goes from there to
\* its catch block
PollThrows(i, allMatches, k) ==
  LET cycle == inflight[i]
      relevant == relevantMatches(allMatches, cycle.trackedTeamIds)
      whole == processMatchUpdates(trackedTeams, matchCache, relevant)
      upd == processMatchUpdatesThrows(trackedTeams, matchCache, relevant, k)
      s == scheduleRetry(timers, pollTimer)
  IN /\ i \in 1..Len(inflight)
     /\ k \in 1..Len(whole.emitted)
     /\ matchCache' = upd.cache
     /\ timers' = s.timers
     /\ pollTimer' = s.pollTimer
     /\ inflight' = RemoveAt(inflight, i)
     /\ lastEvents' = upd.emitted
     /\ lastFetch' = <<>>
     /\ UNCHANGED <<trackedTeams, pollingState, matchStartsSoonTriggered, now,
                    everEmitted, emittedAgain, everMarked, prevFetch, registered, rateVars,
                    teamVars, queryVars, dpsVars>>

\* the clock advances to a later instant
Tick(t) ==
  /\ t > now
  /\ now' = t
  /\ lastEvents' = <<>>
  /\ lastFetch' = <<>>
  /\ UNCHANGED <<trackedTeams, matchCache, pollingState, pollTimer,
                 matchStartsSoonTriggered, timers, inflight, everEmitted,
                 emittedAgain, everMarked, prevFetch, registered, rateVars, teamVars, queryVars, dpsVars>>

(***************************************************************************)
(* The environment: today's match list and the clock                       *)
(***************************************************************************)
\* the match of the day: team 1 at home against team 2; team 3 does not play
Kickoff == 10 * HOUR
TodayMatchId == 100

Snapshot(status, home, away) ==
  [id |-> TodayMatchId, status |-> status, utcDate |-> Kickoff,
   home |-> home, away |-> away, homeTeam |-> 1, awayTeam |-> 2]

MaxScore == 1
Scores == 0..MaxScore

Devices == {"d1", "d2"}

StartOfDay == Kickoff - 130 * MINUTE

Init ==
  /\ trackedTeams = <<>>
  /\ matchCache = <<>>
  /\ pollingState = "IDLE"
  /\ pollTimer = NoTimer
  /\ matchStartsSoonTriggered = <<>>
  /\ timers = {}
  /\ inflight = <<>>
  /\ now = StartOfDay
  /\ lastEvents = <<>>
  /\ lastFetch = <<>>
  /\ everEmitted = {}
  /\ emittedAgain = {}
  /\ everMarked = {}
  /\ prevFetch = NoFetch
  /\ registered = {}
  /\ requestTimestamps = <<>>
  /\ sleepers = <<>>
  /\ recorded = <<>>
  /\ apiKey = "k1"
  /\ sentKey = NoKey
  /\ outcome = ""
  /\ teamCache = NoCache
  /\ teamCacheExpiry = NoExpiry
  /\ cacheLoadingPromise = NoPromise
  /\ loading = NoLoad
  /\ awaiting = 0
  /\ loadRuns = 0
  /\ returned = NoReturn
  /\ queryArg = NoQuery
  /\ queryResult = NoResult
  /\ dpsMatches = <<>>
  /\ dpsResult = ""

(***************************************************************************)
(* Spec: the life cycle of the poll loop under every interleaving of       *)
(* registerDevice, unregisterDevice, timer expiry, fetch completion and    *)
(* fetch failure.                                                          *)
(***************************************************************************)
LoopTeams == {"1", "3"}
LoopFetches ==
  {<<Snapshot(st, sc, sc)>> : st \in {"TIMED", "IN_PLAY"}, sc \in {NoScore}}

Next ==
  \/ \E t \in LoopTeams, d \in Devices : registerDevice(t, d)
  \/ \E t \in LoopTeams, d \in Devices : unregisterDevice(t, d)
  \/ \E h \in timers : TimerFire(h)
  \/ \E i \in 1..Len(inflight), f \in LoopFetches : PollSuccess(i, f)
  \/ \E i \in 1..Len(inflight) : PollFailure(i)

Spec == Init /\ [][Next]_vars

(***************************************************************************)
(* SpecDetect: complete poll cycles one after the other, with every status *)
(* and score the fetch can report for the match; devices register and      *)
(* unregister between cycles, and the clock may jump to the evening, when  *)
(* a finished match is old.                                                *)
(***************************************************************************)
DetectTeams == {"1", "2"}
DetectStatuses == {"TIMED", "IN_PLAY", "PAUSED", "FINISHED", "POSTPONED"}
DetectInstants == {Kickoff + 250 * MINUTE}
DetectFetches ==
  {<<Snapshot(st, h, a)>> :
     st \in DetectStatuses, h \in Scores \cup {NoScore}, a \in Scores \cup {NoScore}}

CycleRegister(t) == inflight = <<>> /\ registerDevice(t, "d1")
CycleUnregister(t) == inflight = <<>> /\ unregisterDevice(t, "d1")

NextDetect ==
  \/ \E t \in DetectTeams : CycleRegister(t)
  \/ \E t \in DetectTeams : CycleUnregister(t)
  \/ \E h \in timers : TimerFire(h)
  \/ \E i \in 1..Len(inflight), f \in DetectFetches : PollSuccess(i, f)
  \/ \E t \in DetectInstants : Tick(t)

SpecDetect == Init /\ [][NextDetect]_vars

(***************************************************************************)
(* SpecCycles: complete poll cycles through the day of a match, with the   *)
(* history of the once-only events; team 3, which does not play, can be    *)
(* tracked as well.                                                        *)
(***************************************************************************)
CycleTeams == {"1", "3"}
CycleInstants == {Kickoff - 120 * MINUTE, Kickoff - 10 * MINUTE, Kickoff + 250 * MINUTE}
CycleFetches ==
  {<<Snapshot("TIMED", NoScore, NoScore)>>, <<Snapshot("FINISHED", 1, 0)>>}

NextCycles ==
  \/ \E t \in CycleTeams : CycleRegister(t)
  \/ \E t \in CycleTeams : CycleUnregister(t)
  \/ \E h \in timers : TimerFire(h)
  \/ \E i \in 1..Len(inflight), f \in CycleFetches : PollSuccessLogged(i, f)
  \/ \E t \in CycleInstants : Tick(t)

SpecCycles == Init /\ [][NextCycles]_vars

(***************************************************************************)
(* SpecFirst: the cycles that observe the match with no cache entry, with  *)
(* every status and score the fetch can report; in the evening a finished  *)
(* match loses its entry again and is observed anew.  Devices register    *)
(* and unregister at any time, also while the fetch is in flight.          *)
(***************************************************************************)
FirstFetches ==
  {<<Snapshot(st, h, a)>> :
     st \in MATCH_STATUS, h \in Scores \cup {NoScore}, a \in Scores \cup {NoScore}}

FirstObservation(i, f) ==
  /\ TodayMatchId \notin DOMAIN matchCache
  /\ PollSuccess(i, f)

NextFirst ==
  \/ \E t \in DetectTeams : registerDevice(t, "d1")
  \/ \E t \in DetectTeams : unregisterDevice(t, "d1")
  \/ \E h \in timers : TimerFire(h)
  \/ \E i \in 1..Len(inflight), f \in FirstFetches : FirstObservation(i, f)
  \/ \E t \in DetectInstants : Tick(t)

SpecFirst == Init /\ [][NextFirst]_vars

(***************************************************************************)
(* SpecScores: cycles in the morning with every score pair up to MaxGoals  *)
(* a side, so that a score can rise by two, fall, or change on both sides  *)
(* in one cycle, while the match is live, finished or not yet started.     *)
(* Devices register and unregister between cycles.                        *)
(***************************************************************************)
MaxGoals == 2
ScoreStatuses == {"TIMED", "IN_PLAY", "PAUSED", "FINISHED", "AWARDED"}
ScoreFetches ==
  {<<Snapshot(st, h, a)>> : st \in ScoreStatuses, h \in 0..MaxGoals, a \in 0..MaxGoals}

NextScores ==
  \/ \E t \in DetectTeams : CycleRegister(t)
  \/ \E t \in DetectTeams : CycleUnregister(t)
  \/ \E h \in timers : TimerFire(h)
  \/ \E i \in 1..Len(inflight), f \in ScoreFetches : PollSuccess(i, f)

SpecScores == Init /\ [][NextScores]_vars

(***************************************************************************)
(* SpecDeliver: the cycles of a match day seen by the devices of both      *)
(* teams, which register between cycles and unregister at any time, also   *)
(* while the fetch is in flight; the clock passes the hour before kickoff  *)
(* and the minutes after the estimated end, so that every polling state    *)
(* is computed.                                                            *)
(***************************************************************************)
DeliverInstants == {Kickoff - 60 * MINUTE, Kickoff + 125 * MINUTE}
DeliverFetches ==
  {<<Snapshot(st, NoScore, NoScore)>> : st \in {"TIMED", "IN_PLAY", "PAUSED", "FINISHED"}}

NextDeliver ==
  \/ \E t \in DetectTeams : CycleRegister(t)
  \/ \E t \in DetectTeams : unregisterDevice(t, "d1")
  \/ \E h \in timers : TimerFire(h)
  \/ \E i \in 1..Len(inflight), f \in DeliverFetches : PollSuccess(i, f)
  \/ \E t \in DeliverInstants : Tick(t)

SpecDeliver == Init /\ [][NextDeliver]_vars

(***************************************************************************)
(* SpecThrow: cycles in which a listener may throw at any call of          *)
(* this.emit of processMatchUpdates; the retry cycle gets the same or a    *)
(* later list.                                                             *)
(***************************************************************************)
MaxEmits == 4
ThrowFetches ==
  {<<Snapshot(st, NoScore, NoScore)>> : st \in {"TIMED", "IN_PLAY", "FINISHED"}}
    \cup {<<Snapshot("IN_PLAY", 1, 0)>>}

NextThrow ==
  \/ \E t \in DetectTeams : CycleRegister(t)
  \/ \E t \in DetectTeams : CycleUnregister(t)
  \/ \E h \in timers : TimerFire(h)
  \/ \E i \in 1..Len(inflight), f \in ThrowFetches : PollSuccess(i, f)
  \/ \E i \in 1..Len(inflight), f \in ThrowFetches, k \in 1..MaxEmits : PollThrows(i, f, k)

SpecThrow == Init /\ [][NextThrow]_vars

(***************************************************************************)
(* SpecSoon: complete cycles before, at and after the kickoff, at the      *)
(* instants at which the kickoff is exactly 120, 60 and 15 minutes away    *)
(* and between them; the match is reported as upcoming or as in play.      *)
(***************************************************************************)
SoonInstants ==
  {Kickoff - 120 * MINUTE, Kickoff - 60 * MINUTE, Kickoff - 20 * MINUTE,
   Kickoff - 15 * MINUTE, Kickoff, Kickoff + MINUTE}
SoonFetches ==
  {<<Snapshot(st, NoScore, NoScore)>> : st \in {"SCHEDULED", "TIMED", "IN_PLAY"}}

NextSoon ==
  \/ \E t \in DetectTeams : CycleRegister(t)
  \/ \E t \in DetectTeams : CycleUnregister(t)
  \/ \E h \in timers : TimerFire(h)
  \/ \E i \in 1..Len(inflight), f \in SoonFetches : PollSuccess(i, f)
  \/ \E t \in SoonInstants : Tick(t)

SpecSoon == Init /\ [][NextSoon]_vars

(***************************************************************************)
(* SpecRepeat: complete cycles through the match and in the evening after  *)
(* it, each with the list of the cycle before or with another one; the     *)
(* API gives the minute of a match in play.                                *)
(***************************************************************************)
SnapshotAt(status, home, away, minute) ==
  [minute |-> minute] @@ Snapshot(status, home, away)

RepeatInstants == {Kickoff + 250 * MINUTE}
RepeatFetches ==
  {<<Snapshot("TIMED", NoScore, NoScore)>>,
   <<SnapshotAt("IN_PLAY", 0, 0, 10)>>,
   <<SnapshotAt("IN_PLAY", 1, 0, 50)>>,
   <<Snapshot("PAUSED", 1, 0)>>,
   <<Snapshot("FINISHED", 1, 0)>>,
   <<Snapshot("FINISHED", NoScore, NoScore)>>}

NextRepeat ==
  \/ \E t \in DetectTeams : CycleRegister(t)
  \/ \E t \in DetectTeams : CycleUnregister(t)
  \/ \E h \in timers : TimerFire(h)
  \/ \E i \in 1..Len(inflight), f \in RepeatFetches : PollSuccessRemembered(i, f)
  \/ \E t \in RepeatInstants : Tick(t)

SpecRepeat == Init /\ [][NextRepeat]_vars

(***************************************************************************)
(* SpecStatus: complete cycles in which the match is reported in any       *)
(* status after any other, without scores, at the start of the day.        *)
(***************************************************************************)
StatusFetches == {<<Snapshot(st, NoScore, NoScore)>> : st \in MATCH_STATUS}

NextStatus ==
  \/ \E t \in DetectTeams : CycleRegister(t)
  \/ \E t \in DetectTeams : CycleUnregister(t)
  \/ \E h \in timers : TimerFire(h)
  \/ \E i \in 1..Len(inflight), f \in StatusFetches : PollSuccess(i, f)

SpecStatus == Init /\ [][NextStatus]_vars

(***************************************************************************)
(* FootballAPI: the rate limiter of request()                              *)
(***************************************************************************)
\* cleanExpiredTimestamps: the timestamps newer than one minute
cleanExpiredTimestamps(ts, t) ==
  LET oneMinuteAgo == t - WINDOW_MS
      fresh(x) == x > oneMinuteAgo
  IN SelectSeq(ts, fresh)

\* canMakeRequest with the buffer ignored: every caller gets the full quota
canMakeRequest_NoBuffer(ts, t, highPriority) ==
  Len(cleanExpiredTimestamps(ts, t)) < RATE_LIMIT

\* canMakeRequest (its cleaning of this.requestTimestamps is done by the caller)
canMakeRequest(ts, t, highPriority) ==
  LET limit == IF highPriority THEN RATE_LIMIT ELSE RATE_LIMIT - RATE_LIMIT_BUFFER
  IN Len(cleanExpiredTimestamps(ts, t)) < limit

\* history: recorded maps <<timestamp, highPriority>> to the number of
\* requests recorded with them; the part of it in the trailing window at t
InWindow(rec, t) ==
  [k \in {x \in DOMAIN rec : x[1] > t - WINDOW_MS} |-> rec[k]]

RecordRequest(rec, t, highPriority) ==
  LET k == <<t, highPriority>>
      old == InWindow(rec, t)
  IN IF k \in DOMAIN old THEN [old EXCEPT ![k] = @ + 1] ELSE (k :> 1) @@ old

RECURSIVE SumOver(_, _)
SumOver(rec, keys) ==
  IF keys = {} THEN 0
  ELSE LET k == CHOOSE x \in keys : TRUE
       IN rec[k] + SumOver(rec, keys \ {k})

\* the number of requests of rec, and of those of normal priority
Total(rec) == SumOver(rec, DOMAIN rec)
NonHigh(rec) == SumOver(rec, {k \in DOMAIN rec : ~k[2]})

MaxSleepers == 1

\* a request() that transmits the key it found when it was entered
requestLoop_KeyOfEntry(caller, highPriority, entered, others) ==
  LET cleaned == cleanExpiredTimestamps(requestTimestamps, now)
  IN IF canMakeRequest(requestTimestamps, now, highPriority)
       THEN /\ requestTimestamps' = Append(cleaned, now)
            /\ sleepers' = others
            /\ recorded' = RecordRequest(recorded, now, highPriority)
            /\ sentKey' = entered
            /\ outcome' = IF Len(others) = Len(sleepers) THEN "sent"
                          ELSE IF entered = apiKey THEN "sent after waiting"
                          ELSE "sent after waiting, key replaced"
            /\ UNCHANGED apiKey
       ELSE LET oldestTimestamp == cleaned[1]
                waitTime == oldestTimestamp + 60000 - now + WAIT_MARGIN_MS
            IN /\ Len(others) < MaxSleepers
               /\ requestTimestamps' = cleaned
               /\ sleepers' = Append(others,
                    [wake |-> IF waitTime > 0 THEN now + waitTime ELSE now,
                     highPriority |-> highPriority, caller |-> caller,
                     entered |-> entered])
               /\ outcome' = "waiting"
               /\ UNCHANGED <<recorded, apiKey, sentKey>>

\* a request() that takes the end of its sleep for the permission to go on
requestLoop_NoRecheck(caller, highPriority, entered, others) ==
  LET cleaned == cleanExpiredTimestamps(requestTimestamps, now)
  IN IF canMakeRequest(requestTimestamps, now, highPriority)
          \/ Len(others) < Len(sleepers)
       THEN /\ requestTimestamps' = Append(cleaned, now)
            /\ sleepers' = others
            /\ recorded' = RecordRequest(recorded, now, highPriority)
            /\ sentKey' = apiKey
            /\ outcome' = IF Len(others) = Len(sleepers) THEN "sent"
                          ELSE IF entered = apiKey THEN "sent after waiting"
                          ELSE "sent after waiting, key replaced"
            /\ UNCHANGED apiKey
       ELSE LET oldestTimestamp == cleaned[1]
                waitTime == oldestTimestamp + 60000 - now + WAIT_MARGIN_MS
            IN /\ Len(others) < MaxSleepers
               /\ requestTimestamps' = cleaned
               /\ sleepers' = Append(others,
                    [wake |-> IF waitTime > 0 THEN now + waitTime ELSE now,
                     highPriority |-> highPriority, caller |-> caller,
                     entered |-> entered])
               /\ outcome' = "waiting"
               /\ UNCHANGED <<recorded, apiKey, sentKey>>

\* request() from the test of its while loop on, for a caller that is not in
\* `others` and entered request() when the key was `entered`: it records the
\* request and transmits it with the key of that moment, or sleeps until the
\* oldest timestamp leaves the window
requestLoop(caller, highPriority, entered, others) ==
  LET cleaned == cleanExpiredTimestamps(requestTimestamps, now)
  IN IF canMakeRequest(requestTimestamps, now, highPriority)
       THEN /\ requestTimestamps' = Append(cleaned, now)
            /\ sleepers' = others
            /\ recorded' = RecordRequest(recorded, now, highPriority)
            /\ sentKey' = apiKey
            /\ outcome' = IF Len(others) = Len(sleepers) THEN "sent"
                          ELSE IF entered = apiKey THEN "sent after waiting"
                          ELSE "sent after waiting, key replaced"
            /\ UNCHANGED apiKey
       ELSE LET oldestTimestamp == cleaned[1]
                waitTime == oldestTimestamp + 60000 - now + WAIT_MARGIN_MS
            IN /\ Len(others) < MaxSleepers
               /\ requestTimestamps' = cleaned
               /\ sleepers' = Append(others,
                    [wake |-> IF waitTime > 0 THEN now + waitTime ELSE now,
                     highPriority |-> highPriority, caller |-> caller,
                     entered |-> entered])
               /\ outcome' = "waiting"
               /\ UNCHANGED <<recorded, apiKey, sentKey>>

\* a request() that looks at the key only when it is about to transmit
request_KeyTestAfterWait(caller, highPriority) ==
  IF apiKey = NoKey /\ canMakeRequest(requestTimestamps, now, highPriority)
    THEN /\ outcome' = "error"
         /\ requestTimestamps' =
              Append(cleanExpiredTimestamps(requestTimestamps, now), now)
         /\ UNCHANGED <<sleepers, recorded, apiKey, sentKey>>
    ELSE requestLoop(caller, highPriority, apiKey, sleepers)

\* request(): without an API key it throws before anything else
request(caller, highPriority) ==
  IF apiKey = NoKey
    THEN /\ outcome' = "error"
         /\ UNCHANGED <<requestTimestamps, sleepers, recorded, apiKey, sentKey>>
    ELSE requestLoop(caller, highPriority, apiKey, sleepers)

\* a caller other than poll() enters request()
Request(highPriority) ==
  /\ request("other", highPriority)
  /\ UNCHANGED <<engineVars, now, teamVars, queryVars, dpsVars>>

\* the sleep of a waiting caller ends: it cleans the window and tests again
Wake(k) ==
  /\ k \in 1..Len(sleepers)
  /\ sleepers[k].wake <= now
  /\ requestLoop(sleepers[k].caller, sleepers[k].highPriority, sleepers[k].entered,
                 RemoveAt(sleepers, k))
  /\ UNCHANGED <<engineVars, now, teamVars, queryVars, dpsVars>>

(***************************************************************************)
(* SpecRate: concurrent callers of request() of both priorities            *)
(***************************************************************************)
RateInstants == {StartOfDay + d : d \in {30000, 60000, 60100, 90100}}

NextRate ==
  \/ \E hp \in BOOLEAN : Request(hp)
  \/ \E k \in 1..Len(sleepers) : Wake(k)
  \/ \E t \in RateInstants : Tick(t)

SpecRate == Init /\ [][NextRate]_vars

(***************************************************************************)
(* SpecWait: the callers of request() while time advances.  Requests are   *)
(* issued up to LastRequest only; the clock goes on to the instant at      *)
(* which the last of them has left the window, and a sleep that is over    *)
(* ends.                                                                   *)
(***************************************************************************)
LastRequest == StartOfDay + 60100
WaitInstants == {StartOfDay + d : d \in {60000, 60100, 120100, 120200}}

\* one of the finitely many requests
EarlyRequest(highPriority) ==
  /\ now <= LastRequest
  /\ Request(highPriority)

NextWait ==
  \/ \E hp \in BOOLEAN : EarlyRequest(hp)
  \/ \E k \in 1..Len(sleepers) : Wake(k)
  \/ \E t \in WaitInstants : Tick(t)

SpecWait ==
  /\ Init
  /\ [][NextWait]_vars
  /\ WF_vars(\E t \in WaitInstants : Tick(t))
  /\ WF_vars(\E k \in 1..Len(sleepers) : Wake(k))

(***************************************************************************)
(* The poll loop together with the requests of its fetches                 *)
(***************************************************************************)
\* a poll() that asks for normal priority whatever the polling state
pollRequest_NeverHigh(ran) ==
  IF ~ran \/ DOMAIN trackedTeams' = {}
    THEN UNCHANGED rateVars
    ELSE request("poll", FALSE)

\* the request() of the poll() a handler has run, if it has run one and found
\* a tracked team: this.api.getTodayMatches(this.pollingState === LIVE)
pollRequest(ran) ==
  IF ~ran \/ DOMAIN trackedTeams' = {}
    THEN UNCHANGED rateVars
    ELSE request("poll", pollingState = "LIVE")

\* registerDevice between cycles, with the request of the cycle it starts
RegisterFetch(t) ==
  /\ inflight = <<>>
  /\ registerDeviceEngine(t, "d1")
  /\ pollRequest(Cardinality(DOMAIN trackedTeams') = 1 /\ pollTimer = NoTimer)

\* a timer fires, with the request of the cycle that starts
TimerFetch(h) ==
  /\ TimerFireEngine(h)
  /\ pollRequest(TRUE)

\* the cycle's request has been transmitted: no poll() sleeps in request()
Transmitted == \A k \in 1..Len(sleepers) : sleepers[k].caller # "poll"

\* the HTTP call of the cycle's request answers with the match list
FetchSuccess(i, allMatches) ==
  /\ Transmitted
  /\ PollSuccess(i, allMatches)

\* the HTTP call fails: transport error or a status that is not 2xx
FetchFailure(i) ==
  /\ Transmitted
  /\ PollFailure(i)

\* the settings listener of app.js: this.api.setApiKey(newApiKey)
setApiKey(key) ==
  /\ apiKey' = key
  /\ UNCHANGED <<engineVars, now, requestTimestamps, sleepers, recorded, sentKey,
                 outcome, teamVars, queryVars, dpsVars>>

(***************************************************************************)
(* SpecApi: the cycles of team 1 and the requests of their fetches, next   *)
(* to the requests of other callers (searches, next-match lookups), which  *)
(* are of normal priority.                                                 *)
(***************************************************************************)
ApiTeams == {"1"}
ApiInstants == {StartOfDay + 30000, StartOfDay + 60100}

NextApi ==
  \/ \E t \in ApiTeams : RegisterFetch(t)
  \/ \E t \in ApiTeams : CycleUnregister(t)
  \/ \E h \in timers : TimerFetch(h)
  \/ \E i \in 1..Len(inflight), f \in LoopFetches : FetchSuccess(i, f)
  \/ \E i \in 1..Len(inflight) : FetchFailure(i)
  \/ Request(FALSE)
  \/ \E k \in 1..Len(sleepers) : Wake(k)
  \/ \E t \in ApiInstants : Tick(t)

SpecApi == Init /\ [][NextApi]_vars

(***************************************************************************)
(* SpecKey: the same, with a key that is replaced or removed at any time,  *)
(* also while a request waits for the window.                              *)
(***************************************************************************)
ApiKeys == {NoKey, "k2"}
KeyInstants == {StartOfDay + 60100}
KeyFetches == {<<Snapshot("IN_PLAY", NoScore, NoScore)>>}

NextKey ==
  \/ \E t \in ApiTeams : RegisterFetch(t)
  \/ \E t \in ApiTeams : CycleUnregister(t)
  \/ \E h \in timers : TimerFetch(h)
  \/ \E i \in 1..Len(inflight), f \in KeyFetches : FetchSuccess(i, f)
  \/ Request(FALSE)
  \/ \E k \in 1..Len(sleepers) : Wake(k)
  \/ \E key \in ApiKeys : setApiKey(key)
  \/ \E t \in KeyInstants : Tick(t)

SpecKey == Init /\ [][NextKey]_vars

(***************************************************************************)
(* FootballAPI: the team directory, loadTeamCache and doLoadTeamCache      *)
(***************************************************************************)
DAY == 24 * 60 * 60 * 1000
\* the sleep of doLoadTeamCache between two competitions
LOAD_PAUSE == 7000

MaxCompetitions == 2
\* the codes of FREE_TIER_COMPETITIONS, the first MaxCompetitions of them
FREE_TIER_COMPETITIONS ==
  SubSeq(<<"PL", "BL1", "SA", "PD", "FL1", "DED", "PPL", "ELC", "CL", "EC", "WC">>,
         1, MaxCompetitions)

MaxCallers == 2
MaxLoads == 2

\* a test that takes a directory without teams for no directory
cacheValid_NonEmpty ==
  /\ teamCache # NoCache
  /\ teamCache # {}
  /\ teamCacheExpiry # NoExpiry
  /\ now < teamCacheExpiry

\* the test of loadTeamCache: the directory is there and has not expired
cacheValid ==
  /\ teamCache # NoCache
  /\ teamCacheExpiry # NoExpiry
  /\ now < teamCacheExpiry

\* the loop of doLoadTeamCache from competition j on, with the directory c,
\* up to the point where it waits: the pause before a competition when the
\* directory is not empty, or the request of the competition; a request
\* that throws for want of a key is caught and the loop goes on
RECURSIVE loadFrom(_, _)
loadFrom(j, c) ==
  IF j > Len(FREE_TIER_COMPETITIONS) THEN [done |-> TRUE, next |-> 0, phase |-> ""]
  ELSE IF c # {} THEN [done |-> FALSE, next |-> j, phase |-> "sleep"]
  ELSE IF apiKey = NoKey THEN loadFrom(j + 1, c)
  ELSE [done |-> FALSE, next |-> j, phase |-> "request"]

\* doLoadTeamCache arrives at r with the directory c, the load being the
\* promise `promise` that n callers await: at the end of the loop the
\* directory gets its expiry and the promise resolves, every caller
\* returns, and the first caller's finally block clears the marker
loadStep(r, c, promise, n) ==
  IF r.done
    THEN /\ teamCache' = c
         /\ teamCacheExpiry' = now + DAY
         /\ loading' = NoLoad
         /\ cacheLoadingPromise' = NoPromise
         /\ awaiting' = 0
         /\ returned' = [n |-> n, value |-> c, load |-> promise]
         /\ UNCHANGED rateVars
    ELSE /\ teamCache' = c
         /\ loading' = [next |-> r.next, phase |-> r.phase,
                        wake |-> IF r.phase = "sleep" THEN now + LOAD_PAUSE ELSE 0]
         /\ cacheLoadingPromise' = promise
         /\ awaiting' = n
         /\ returned' = NoReturn
         /\ UNCHANGED teamCacheExpiry
         /\ IF r.phase = "request"
              THEN requestLoop("load", FALSE, apiKey, sleepers)
              ELSE UNCHANGED rateVars

\* a loadTeamCache that does not look at cacheLoadingPromise
loadTeamCache_NoMarkerTest ==
  /\ IF cacheValid
       THEN /\ returned' = [n |-> 1, value |-> teamCache, load |-> NoPromise]
            /\ UNCHANGED <<teamCache, teamCacheExpiry, cacheLoadingPromise, loading,
                           awaiting, loadRuns, rateVars>>
       ELSE /\ loadRuns < MaxLoads
            /\ awaiting < MaxCallers
            /\ loadRuns' = loadRuns + 1
            /\ loadStep(loadFrom(1, {}), {}, loadRuns + 1, awaiting + 1)
  /\ UNCHANGED <<engineVars, now, queryVars, dpsVars>>

\* a caller calls loadTeamCache
loadTeamCache ==
  /\ IF cacheValid
       THEN /\ returned' = [n |-> 1, value |-> teamCache, load |-> NoPromise]
            /\ UNCHANGED <<teamCache, teamCacheExpiry, cacheLoadingPromise, loading,
                           awaiting, loadRuns, rateVars>>
       ELSE IF cacheLoadingPromise # NoPromise
         THEN /\ awaiting < MaxCallers
              /\ awaiting' = awaiting + 1
              /\ returned' = NoReturn
              /\ UNCHANGED <<teamCache, teamCacheExpiry, cacheLoadingPromise, loading,
                             loadRuns, rateVars>>
       ELSE /\ loadRuns < MaxLoads
            /\ loadRuns' = loadRuns + 1
            /\ loadStep(loadFrom(1, {}), {}, loadRuns + 1, 1)
  /\ UNCHANGED <<engineVars, now, queryVars, dpsVars>>

\* the pause of doLoadTeamCache ends: it requests the next competition
LoadPauseEnds ==
  /\ loading.phase = "sleep"
  /\ loading.wake <= now
  /\ loadStep(IF apiKey = NoKey
                THEN loadFrom(loading.next + 1, teamCache)
                ELSE [done |-> FALSE, next |-> loading.next, phase |-> "request"],
              teamCache, cacheLoadingPromise, awaiting)
  /\ UNCHANGED <<engineVars, now, loadRuns, queryVars, dpsVars>>

\* the request of doLoadTeamCache is answered: with the teams of the
\* competition, with an error, or with status 429 ('Rate limit exceeded'),
\* on which the loop is left
LoadResponse(kind) ==
  LET j == loading.next
      c == IF kind = "teams" THEN teamCache \cup {FREE_TIER_COMPETITIONS[j]} ELSE teamCache
      r == IF kind = "rate limit"
             THEN [done |-> TRUE, next |-> 0, phase |-> ""]
             ELSE loadFrom(j + 1, c)
  IN /\ loading.phase = "request"
     /\ \A k \in 1..Len(sleepers) : sleepers[k].caller # "load"
     /\ loadStep(r, c, cacheLoadingPromise, awaiting)
     /\ UNCHANGED <<engineVars, now, loadRuns, queryVars, dpsVars>>

(***************************************************************************)
(* SpecTeams: callers of loadTeamCache at any time of two days, while the  *)
(* directory is absent, loading, valid or expired.                        *)
(***************************************************************************)
TeamInstants == {StartOfDay + LOAD_PAUSE, StartOfDay + DAY - 1, StartOfDay + DAY + LOAD_PAUSE,
                 StartOfDay + DAY + 2 * LOAD_PAUSE}

NextTeams ==
  \/ loadTeamCache
  \/ LoadPauseEnds
  \/ \E kind \in {"teams", "error", "rate limit"} : LoadResponse(kind)
  \/ \E t \in TeamInstants : Tick(t)

SpecTeams == Init /\ [][NextTeams]_vars

(***************************************************************************)
(* The point queries getTeamLiveMatch and getTeamMatchToday                *)
(***************************************************************************)
\* a getTeamLiveMatch that does not look at the status
getTeamLiveMatch_AnyStatus(entries, teamId) ==
  LET numericTeamId == Number(teamId)
      hit(cached) == \/ cached.homeTeamId = numericTeamId
                     \/ cached.awayTeamId = numericTeamId
      hits == SelectSeq(entries, hit)
  IN IF hits = <<>> THEN NoResult ELSE hits[1]

\* getTeamLiveMatch on the entries of this.matchCache in the order of the Map
getTeamLiveMatch(entries, teamId) ==
  LET numericTeamId == Number(teamId)
      hit(cached) == /\ cached.status \in LIVE_STATUSES
                     /\ \/ cached.homeTeamId = numericTeamId
                        \/ cached.awayTeamId = numericTeamId
      hits == SelectSeq(entries, hit)
  IN IF hits = <<>> THEN NoResult ELSE hits[1]

\* getTeamMatchToday
getTeamMatchToday(entries, teamId) ==
  LET numericTeamId == Number(teamId)
      hit(cached) == \/ cached.homeTeamId = numericTeamId
                     \/ cached.awayTeamId = numericTeamId
      hits == SelectSeq(entries, hit)
  IN IF hits = <<>> THEN NoResult ELSE hits[1]

\* the orders in which the Map may hold the entries of a cache: the order of
\* their insertion, which the function that stands for the Map does not keep
MapOrders(cache) ==
  LET n == Cardinality(DOMAIN cache)
      orders == {o \in [1..n -> DOMAIN cache] : \A a, b \in 1..n : o[a] = o[b] => a = b}
  IN {[a \in 1..n |-> cache[o[a]]] : o \in orders}

\* a device calls one of the two queries
Query(fn, teamId) ==
  /\ queryArg' = [fn |-> fn, teamId |-> teamId]
  /\ \E entries \in MapOrders(matchCache) :
       queryResult' = IF fn = "getTeamLiveMatch"
                        THEN getTeamLiveMatch(entries, teamId)
                        ELSE getTeamMatchToday(entries, teamId)
  /\ UNCHANGED <<engineVars, now, rateVars, teamVars, dpsVars>>

(***************************************************************************)
(* SpecQuery: the queries on every cache of at most two matches, team 1 at *)
(* home against team 2 and team 3 at home against team 1, in any status.   *)
(***************************************************************************)
QueryMatch(id, status) ==
  [id |-> id, status |-> status, utcDate |-> Kickoff, home |-> NoScore, away |-> NoScore,
   homeTeam |-> IF id = TodayMatchId THEN 1 ELSE 3,
   awayTeam |-> IF id = TodayMatchId THEN 2 ELSE 1]

QueryIds == {TodayMatchId, TodayMatchId + 1}

QueryCaches ==
  UNION {[ids -> MATCH_STATUS] : ids \in SUBSET QueryIds}

InitQuery ==
  /\ trackedTeams = <<>>
  /\ \E st \in QueryCaches :
       matchCache = [id \in DOMAIN st |-> createMatchState(QueryMatch(id, st[id]), NoEvents)]
  /\ pollingState = "IDLE"
  /\ pollTimer = NoTimer
  /\ matchStartsSoonTriggered = <<>>
  /\ timers = {}
  /\ inflight = <<>>
  /\ now = StartOfDay
  /\ lastEvents = <<>>
  /\ lastFetch = <<>>
  /\ everEmitted = {}
  /\ emittedAgain = {}
  /\ everMarked = {}
  /\ prevFetch = NoFetch
  /\ registered = {}
  /\ requestTimestamps = <<>>
  /\ sleepers = <<>>
  /\ recorded = <<>>
  /\ apiKey = "k1"
  /\ sentKey = NoKey
  /\ outcome = ""
  /\ teamCache = NoCache
  /\ teamCacheExpiry = NoExpiry
  /\ cacheLoadingPromise = NoPromise
  /\ loading = NoLoad
  /\ awaiting = 0
  /\ loadRuns = 0
  /\ returned = NoReturn
  /\ queryArg = NoQuery
  /\ queryResult = NoResult
  /\ dpsMatches = <<>>
  /\ dpsResult = ""

QueryFns == {"getTeamLiveMatch", "getTeamMatchToday"}

NextQuery == \E fn \in QueryFns, teamId \in TeamIdStrings : Query(fn, teamId)

SpecQuery == InitQuery /\ [][NextQuery]_vars

(***************************************************************************)
(* SpecClean: complete cycles in the evening of the match, at the instant  *)
(* four hours after the kickoff and later; the list of the day may have    *)
(* lost the match, and a device asks for the live match of team 1.         *)
(***************************************************************************)
CleanInstants ==
  {Kickoff + 4 * HOUR, Kickoff + 4 * HOUR + 1, Kickoff + 5 * HOUR}
CleanFetches ==
  {<<>>} \cup {<<Snapshot(st, NoScore, NoScore)>> :
                  st \in {"TIMED", "IN_PLAY", "PAUSED", "FINISHED", "AWARDED"}}

NextClean ==
  \/ \E t \in DetectTeams : CycleRegister(t)
  \/ \E t \in DetectTeams : CycleUnregister(t)
  \/ \E h \in timers : TimerFire(h)
  \/ \E i \in 1..Len(inflight), f \in CleanFetches : PollSuccess(i, f)
  \/ \E t \in CleanInstants : Tick(t)
  \/ Query("getTeamLiveMatch", "1")

SpecClean == Init /\ [][NextClean]_vars

(***************************************************************************)
(* SpecState: determinePollingState called on every list of at most two    *)
(* matches, at instants around the kickoff.                                *)
(***************************************************************************)
StateInstants ==
  {Kickoff + d * MINUTE :
     d \in {0 - 121, 0 - 120, 0 - 1, 0, 1, 119, 120, 121, 134, 135}}

StateMatch(id, status) ==
  [id |-> id, status |-> status, utcDate |-> Kickoff,
   home |-> NoScore, away |-> NoScore, homeTeam |-> 1, awayTeam |-> 2]

StateInputs ==
  {<<>>}
    \cup {<<StateMatch(100, a)>> : a \in MATCH_STATUS}
    \cup {<<StateMatch(100, a), StateMatch(101, b)>> : a \in MATCH_STATUS, b \in MATCH_STATUS}

InitState ==
  /\ trackedTeams = <<>>
  /\ matchCache = <<>>
  /\ pollingState = "IDLE"
  /\ pollTimer = NoTimer
  /\ matchStartsSoonTriggered = <<>>
  /\ timers = {}
  /\ inflight = <<>>
  /\ now \in StateInstants
  /\ lastEvents = <<>>
  /\ lastFetch = <<>>
  /\ everEmitted = {}
  /\ emittedAgain = {}
  /\ everMarked = {}
  /\ prevFetch = NoFetch
  /\ registered = {}
  /\ requestTimestamps = <<>>
  /\ sleepers = <<>>
  /\ recorded = <<>>
  /\ apiKey = "k1"
  /\ sentKey = NoKey
  /\ outcome = ""
  /\ teamCache = NoCache
  /\ teamCacheExpiry = NoExpiry
  /\ cacheLoadingPromise = NoPromise
  /\ loading = NoLoad
  /\ awaiting = 0
  /\ loadRuns = 0
  /\ returned = NoReturn
  /\ queryArg = NoQuery
  /\ queryResult = NoResult
  /\ dpsMatches \in StateInputs
  /\ dpsResult = ""

\* const newState = this.determinePollingState(relevantMatches)
Determine ==
  /\ dpsResult = ""
  /\ dpsResult' = determinePollingState(dpsMatches, now)
  /\ UNCHANGED <<engineVars, now, rateVars, teamVars, queryVars, dpsMatches>>

NextState == Determine

SpecState == InitState /\ [][NextState]_vars

(***************************************************************************)
(* Properties                                                              *)
(***************************************************************************)
\* how many events of lastEvents satisfy P
CountEvents(evs, P(_)) == Cardinality({i \in 1..Len(evs) : P(evs[i])})

\* C1: each one-shot event (match_kickoff, halftime_started,
\* second_half_started, match_finished, team_won, team_lost, team_drew) is
\* emitted at most once per match and tracked team over any sequence of
\* complete poll cycles, also for a finished match older than 4 hours that the
\* fetch still returns.
C1_OneShotAtMostOnce ==
  \A k \in emittedAgain : k[1] = "match_starts_soon"

\* the marker that latches an event
MarkerOf(name) ==
  CASE name = "match_kickoff" -> "kickoffTriggered"
    [] name = "halftime_started" -> "halftimeTriggered"
    [] name = "second_half_started" -> "secondHalfTriggered"
    [] name \in {"match_finished", "team_won", "team_lost", "team_drew"} ->
         "finishedTriggered"

LatchedNames == {"match_kickoff", "halftime_started", "second_half_started",
                 "match_finished", "team_won", "team_lost", "team_drew"}

C3_AtMostOneCycle == Len(inflight) <= 1

\* C4: when no team is tracked and no cycle is in flight any more, no poll
\* timer is pending: the cycle that was in flight when the last team was
\* unregistered did not arm one.
C4_HaltsWhenNothingTracked ==
  (DOMAIN trackedTeams = {} /\ inflight = <<>>) => timers = {}

\* the side's team and scores
SideTeam(m, side) == IF side = "home" THEN m.homeTeam ELSE m.awayTeam
FetchedScore(m, side) == IF side = "home" THEN OrZero(m.home) ELSE OrZero(m.away)
CachedScore(c, side) == IF side = "home" THEN c.homeScore ELSE c.awayScore
Sides == {"home", "away"}

\* the number of team_scored events a cycle emitted for a side of a match
ScoredCount(evs, m, side) ==
  LET isScored(e) == /\ e.name = "team_scored"
                     /\ e.match = m.id
                     /\ e.teamId = SideTeam(m, side)
  IN CountEvents(evs, isScored)

\* the side's fetched score is strictly greater than its cached score
ScoreRose(cache, m, side) ==
  /\ m.id \in DOMAIN cache
  /\ FetchedScore(m, side) > CachedScore(cache[m.id], side)

\* C5 as claimed: in every successful cycle, a tracked side gets one
\* team_scored event if its fetched score is strictly greater than its cached
\* score, whatever the fetched status, and none otherwise; so the events
\* count the strict increases.
C5_ScoredIffScoreRose ==
  [][\A j \in 1..Len(lastFetch') :
       \A side \in Sides :
         String(SideTeam(lastFetch'[j], side)) \in DOMAIN trackedTeams =>
           ScoredCount(lastEvents', lastFetch'[j], side) =
             IF ScoreRose(matchCache, lastFetch'[j], side) THEN 1 ELSE 0]_vars

\* C5 as amended: in every successful cycle, a side gets one team_scored
\* event if its team is tracked, the match is cached, the fetched status is
\* IN_PLAY or PAUSED and its fetched score is strictly greater than its cached
\* score, and none otherwise.
C5_ScoredIffScoreRoseLive ==
  [][\A j \in 1..Len(lastFetch') :
       \A side \in Sides :
         ScoredCount(lastEvents', lastFetch'[j], side) =
           IF /\ String(SideTeam(lastFetch'[j], side)) \in DOMAIN trackedTeams
              /\ lastFetch'[j].status \in LIVE_STATUSES
              /\ ScoreRose(matchCache, lastFetch'[j], side)
             THEN 1 ELSE 0]_vars

\* a cycle has just emitted team_scored, and the cache holds the new score
C5_Witness ==
  /\ \E j \in 1..Len(lastEvents) : lastEvents[j].name = "team_scored"
  /\ TodayMatchId \in DOMAIN matchCache
  /\ matchCache[TodayMatchId].homeScore + matchCache[TodayMatchId].awayScore > 0

\* C6: match_starts_soon with minutes = T is emitted at most once for a
\* match (and tracked team) over the whole run, whatever is registered and
\* unregistered between the cycles.
C6_StartsSoonAtMostOnce ==
  \A k \in emittedAgain : k[1] # "match_starts_soon"

\* C7: the match_starts_soon events of one match have non-increasing
\* threshold values in emission order, within a cycle and from one cycle to
\* the next.
C7_StartsSoonNonIncreasing ==
  [][\A j \in 1..Len(lastEvents') :
       lastEvents'[j].name = "match_starts_soon" =>
         /\ \A i \in 1..(j - 1) :
              (lastEvents'[i].name = "match_starts_soon"
                 /\ lastEvents'[i].match = lastEvents'[j].match)
                => lastEvents'[i].minutes >= lastEvents'[j].minutes
         /\ \A k \in everEmitted :
              (k[1] = "match_starts_soon" /\ k[2] = lastEvents'[j].match)
                => k[4] >= lastEvents'[j].minutes]_vars

\* C10: a cycle whose getTodayMatches fails leaves matchCache,
\* matchStartsSoonTriggered and pollingState as they were, emits no event and
\* arms a timer of 60000 ms, which pollTimer holds, whatever pollingState is.
C10_FailureRetriesIn60s ==
  [][\A i \in 1..Len(inflight) :
       PollFailure(i) =>
         /\ matchCache' = matchCache
         /\ matchStartsSoonTriggered' = matchStartsSoonTriggered
         /\ pollingState' = pollingState
         /\ lastEvents' = <<>>
         /\ [id |-> pollTimer', delay |-> 60000] \in timers'
         /\ \A h \in timers' \ timers : h.delay = 60000
         /\ Cardinality(timers') = Cardinality(timers) + 1]_vars

\* a failed cycle has armed the 60 s retry while the engine is in state LIVE,
\* whose own delay is 30 s
C10_Witness ==
  /\ pollingState = "LIVE"
  /\ pollTimer # NoTimer
  /\ [id |-> pollTimer, delay |-> 60000] \in timers
  /\ TodayMatchId \in DOMAIN matchCache

\* C8: in every trailing 60-second window at most RATE_LIMIT -
\* RATE_LIMIT_BUFFER (8) non-high-priority requests and at most RATE_LIMIT (10)
\* requests in all are recorded, and a non-high-priority request is recorded
\* only when fewer than 8 requests of any priority are in the window.
C8_WindowQuota ==
  [][/\ NonHigh(InWindow(recorded', now')) <= 8
     /\ Total(InWindow(recorded', now')) <= 10
     /\ NonHigh(InWindow(recorded', now')) > NonHigh(InWindow(recorded, now'))
          => Total(InWindow(recorded, now)) < 8]_vars

\* the window is full, 8 requests of normal and 2 of high priority, and a
\* caller is waiting
C8_Witness ==
  /\ Total(InWindow(recorded, now)) = 10
  /\ NonHigh(InWindow(recorded, now)) = 8
  /\ sleepers # <<>>

\* the state the claimed order of the buckets gives: LIVE (a match in play
\* or one that is probably live) before PAUSED, POST_MATCH, PRE_MATCH, IDLE
ClaimedPollingState(matches, t) ==
  IF hasLiveMatch(matches) \/ hasProbablyLive(matches, t) THEN "LIVE"
  ELSE IF hasPausedMatch(matches) THEN "PAUSED"
  ELSE IF hasRecentlyFinished(matches, t) THEN "POST_MATCH"
  ELSE IF hasUpcoming(matches, t) THEN "PRE_MATCH"
  ELSE "IDLE"

\* C9: determinePollingState returns the highest-priority non-empty bucket
\* in the order LIVE > PAUSED > POST_MATCH > PRE_MATCH > IDLE, where LIVE
\* holds a match in play or a SCHEDULED/TIMED match whose kickoff passed
\* within the last 120 minutes.
C9_HighestPriorityBucket ==
  dpsResult # "" => dpsResult = ClaimedPollingState(dpsMatches, now)

\* C11: a poll cycle that starts with no tracked team performs no fetch,
\* leaves pollingState as it is and arms the next timer with the IDLE delay
\* of 15 minutes, whatever pollingState is.
C11_ZeroTrackedArmsIdleDelay ==
  [][\A h \in timers :
       (DOMAIN trackedTeams = {} /\ TimerFire(h)) =>
         /\ inflight' = inflight
         /\ pollingState' = pollingState
         /\ [id |-> pollTimer', delay |-> 15 * MINUTE] \in timers']_vars

\* exactly one timer is armed on top of the timers in `before`, and pollTimer
\* holds its handle
ArmedOnce(before) ==
  /\ before \subseteq timers'
  /\ Cardinality(timers' \ before) = 1
  /\ \E h \in timers' \ before : h.id = pollTimer'

\* C12: every poll cycle that completes, on the success path, the
\* zero-tracked path or the failure path, arms the timer exactly once.
C12_ArmsExactlyOnce ==
  [][/\ lastFetch' # <<>> => ArmedOnce(clearTimeout(timers, pollTimer))
     /\ \A i \in 1..Len(inflight) :
          PollFailure(i) => ArmedOnce(timers)
     /\ \A h \in timers :
          (DOMAIN trackedTeams = {} /\ TimerFire(h)) =>
            ArmedOnce(clearTimeout(timers \ {h}, pollTimer))]_vars

\* a cycle has completed while another one is still awaiting its fetch, and
\* its timer is the only one pending
C12_Witness ==
  /\ Len(inflight) = 1
  /\ Cardinality(timers) = 1
  /\ \E h \in timers : h.id = pollTimer

\* C13: whenever registerDevice takes the number of tracked teams from zero
\* to one, a poll cycle is started inside that call: a getTodayMatches call is
\* outstanding when it returns.
C13_FirstRegisterStartsCycle ==
  [][\A t \in LoopTeams, d \in Devices :
       (DOMAIN trackedTeams = {} /\ registerDevice(t, d)) =>
         Len(inflight') = Len(inflight) + 1]_vars

\* the registry holds exactly the teams with a device registered and not
\* unregistered since, each with the set of those devices
RegistryMatchesHistory ==
  /\ \A t \in TeamIdStrings :
       t \in DOMAIN trackedTeams <=> \E d \in Devices : <<t, d>> \in registered
  /\ \A t \in DOMAIN trackedTeams :
       /\ trackedTeams[t] # {}
       /\ trackedTeams[t] = {d \in Devices : <<t, d>> \in registered}

\* C14: a team id is a key of trackedTeams iff a device registered for it has
\* not been unregistered, and no key maps to an empty set; unregistering one
\* of several devices of a team keeps the team tracked and does not stop
\* polling; unregistering a device that was never registered leaves the
\* registry as it is.
C14_RegistryCountsDevices ==
  [][/\ RegistryMatchesHistory'
     /\ \A t \in LoopTeams, d \in Devices :
          unregisterDevice(t, d) =>
            /\ (t \in DOMAIN trackedTeams /\ trackedTeams[t] \ {d} # {}) =>
                  /\ t \in DOMAIN trackedTeams'
                  /\ timers' = timers
                  /\ pollTimer' = pollTimer
            /\ <<t, d>> \notin registered => trackedTeams' = trackedTeams]_vars

\* team 1 is tracked with two devices and team 3 with one, after register
\* calls for each, and the poll timer is pending
C14_Witness ==
  /\ registered = {<<"1", "d1">>, <<"1", "d2">>, <<"3", "d2">>}
  /\ DOMAIN trackedTeams = {"1", "3"}
  /\ Cardinality(trackedTeams["1"]) = 2
  /\ \E h \in timers : h.id = pollTimer

\* how many events of that name a cycle emitted to a team for a match
CountFor(evs, name, matchId, teamId) ==
  Cardinality({j \in 1..Len(evs) : /\ evs[j].name = name
                                    /\ evs[j].match = matchId
                                    /\ evs[j].teamId = teamId})

ResultNames == {"team_won", "team_lost", "team_drew"}
ScoreEventNames == {"team_scored", "team_conceded", "match_result_changed"}
StatusEventNames == {"match_kickoff", "halftime_started", "second_half_started",
                     "match_finished"}

\* what a first observation with that status emits once to each tracked side
FirstEventOf(status) ==
  CASE status = "IN_PLAY" -> "match_kickoff"
    [] status = "PAUSED" -> "halftime_started"
    [] status \in {"FINISHED", "AWARDED"} -> "match_finished"
    [] OTHER -> "none"

RECURSIVE SumCounts(_, _, _, _)
SumCounts(evs, names, matchId, teamId) ==
  IF names = {} THEN 0
  ELSE LET n == CHOOSE x \in names : TRUE
       IN CountFor(evs, n, matchId, teamId)
            + SumCounts(evs, names \ {n}, matchId, teamId)

\* C15: a match observed with no cache entry emits, to each tracked side,
\* match_kickoff once if its status is IN_PLAY, halftime_started once if
\* PAUSED, match_finished and one result event once if FINISHED or AWARDED,
\* and nothing for any other status; the new entry has exactly the marker of
\* that event set; no score event is emitted whatever the score.
C15_FirstObservation ==
  [][\A j \in 1..Len(lastFetch') :
       LET m == lastFetch'[j]
       IN m.id \notin DOMAIN matchCache =>
            /\ \A side \in {"home", "away"} :
                 LET team == IF side = "home" THEN m.homeTeam ELSE m.awayTeam
                     tracked == String(team) \in DOMAIN trackedTeams
                 IN /\ \A n \in StatusEventNames :
                         CountFor(lastEvents', n, m.id, team) =
                           IF tracked /\ n = FirstEventOf(m.status) THEN 1 ELSE 0
                    /\ SumCounts(lastEvents', ResultNames, m.id, team) =
                         IF tracked /\ m.status \in {"FINISHED", "AWARDED"}
                           THEN 1 ELSE 0
                    /\ SumCounts(lastEvents', ScoreEventNames, m.id, team) = 0
            /\ m.id \in DOMAIN matchCache' =>
                 matchCache'[m.id].events =
                   [kickoffTriggered |-> m.status = "IN_PLAY",
                    halftimeTriggered |-> m.status = "PAUSED",
                    secondHalfTriggered |-> FALSE,
                    extraTimeTriggered |-> FALSE,
                    finishedTriggered |-> m.status \in {"FINISHED", "AWARDED"}]]_vars

\* a match first observed as AWARDED with a score of 1-0: both tracked sides
\* got match_finished and their result, and the new entry is marked finished
C15_Witness ==
  /\ TodayMatchId \in DOMAIN matchCache
  /\ matchCache[TodayMatchId].status = "AWARDED"
  /\ matchCache[TodayMatchId].events.finishedTriggered
  /\ Len(lastEvents) = 4
  /\ lastEvents[1].name = "match_finished"
  /\ lastEvents[3].name = "team_won"
  /\ lastEvents[4].name = "team_lost"

\* the teams of a side and of its opponent, and the side's scores
OtherSide(side) == IF side = "home" THEN "away" ELSE "home"
IsTracked(team) == String(team) \in DOMAIN trackedTeams

\* C16: when a cached match changes status to FINISHED or AWARDED and
\* finishedTriggered is false, each tracked side gets match_finished once,
\* before any result event, and then exactly one result event from the
\* fetched scores: team_won with the higher score, team_lost with the lower,
\* team_drew when they are equal.
C16_FinishedThenOneResult ==
  [][\A j \in 1..Len(lastFetch') :
       LET m == lastFetch'[j]
       IN (/\ m.id \in DOMAIN matchCache
           /\ matchCache[m.id].status # m.status
           /\ m.status \in {"FINISHED", "AWARDED"}
           /\ ~matchCache[m.id].events.finishedTriggered) =>
            /\ \A side \in Sides :
                 LET team == SideTeam(m, side)
                     own == FetchedScore(m, side)
                     other == FetchedScore(m, OtherSide(side))
                     one(c) == IF IsTracked(team) /\ c THEN 1 ELSE 0
                 IN /\ CountFor(lastEvents', "match_finished", m.id, team) = one(TRUE)
                    /\ CountFor(lastEvents', "team_won", m.id, team) = one(own > other)
                    /\ CountFor(lastEvents', "team_lost", m.id, team) = one(own < other)
                    /\ CountFor(lastEvents', "team_drew", m.id, team) = one(own = other)
            /\ \A a \in 1..Len(lastEvents'), b \in 1..Len(lastEvents') :
                 (/\ lastEvents'[a].name = "match_finished"
                  /\ lastEvents'[b].name \in ResultNames
                  /\ lastEvents'[a].match = lastEvents'[b].match) => a < b
            /\ matchCache'[m.id].events.finishedTriggered]_vars

\* a cached match has just finished 1-1 with both teams tracked: each got
\* match_finished and then team_drew
C16_Witness ==
  /\ Len(lastFetch) = 1
  /\ lastFetch[1].status = "FINISHED"
  /\ Len(lastEvents) = 4
  /\ lastEvents[1].name = "match_finished"
  /\ lastEvents[2].name = "match_finished"
  /\ lastEvents[3].name = "team_drew"
  /\ lastEvents[4].name = "team_drew"
  /\ matchCache[TodayMatchId].events.kickoffTriggered
  /\ matchCache[TodayMatchId].events.finishedTriggered

\* winning, losing or drawing, from a side's score and its opponent's
SideState(own, other) ==
  IF own > other THEN "winning" ELSE IF own < other THEN "losing" ELSE "drawing"

\* C17: match_result_changed is emitted for a side only in a cycle where the
\* side's result state differs between the cached and the fetched score
\* pair, at most once, and it carries the new state; a score change that
\* leaves the side's result state the same emits none for that side.
C17_ResultChangedOnlyOnChange ==
  [][\A j \in 1..Len(lastFetch') :
       LET m == lastFetch'[j]
       IN \A side \in Sides :
            LET team == SideTeam(m, side)
                new == SideState(FetchedScore(m, side), FetchedScore(m, OtherSide(side)))
            IN /\ CountFor(lastEvents', "match_result_changed", m.id, team) <= 1
               /\ CountFor(lastEvents', "match_result_changed", m.id, team) = 1 =>
                    /\ m.id \in DOMAIN matchCache
                    /\ SideState(CachedScore(matchCache[m.id], side),
                                 CachedScore(matchCache[m.id], OtherSide(side))) # new
               /\ \A k \in 1..Len(lastEvents') :
                    (/\ lastEvents'[k].name = "match_result_changed"
                     /\ lastEvents'[k].match = m.id
                     /\ lastEvents'[k].teamId = team) => lastEvents'[k].state = new]_vars

\* a cycle saw the score change to 2-2 with both sides scoring: both get
\* team_scored and team_conceded and a match_result_changed to drawing
C17_Witness ==
  /\ \E k \in 1..Len(lastEvents) :
       /\ lastEvents[k].name = "match_result_changed"
       /\ lastEvents[k].state = "drawing"
       /\ lastEvents[k].home = 2
       /\ lastEvents[k].away = 2
  /\ Len(lastEvents) = 6

\* C18: for a cached match whose fetched status is IN_PLAY or PAUSED, a side
\* whose fetched score is strictly greater than its cached score gets
\* exactly one team_scored (if tracked) and its opponent exactly one
\* team_conceded (if tracked), both carrying the fetched score pair, by
\* however many goals the score rose; a side whose score is equal or lower
\* gets no team_scored; with any other fetched status no score event is
\* emitted.
C18_ScoredAndConceded ==
  [][\A j \in 1..Len(lastFetch') :
       LET m == lastFetch'[j]
       IN m.id \in DOMAIN matchCache =>
            \A side \in Sides :
              LET team == SideTeam(m, side)
                  opponent == SideTeam(m, OtherSide(side))
                  rose == /\ m.status \in {"IN_PLAY", "PAUSED"}
                          /\ FetchedScore(m, side) > CachedScore(matchCache[m.id], side)
              IN /\ CountFor(lastEvents', "team_scored", m.id, team) =
                      IF rose /\ IsTracked(team) THEN 1 ELSE 0
                 /\ CountFor(lastEvents', "team_conceded", m.id, opponent) =
                      IF rose /\ IsTracked(opponent) THEN 1 ELSE 0
                 /\ m.status \notin {"IN_PLAY", "PAUSED"} =>
                      SumCounts(lastEvents', ScoreEventNames, m.id, team) = 0
                 /\ \A k \in 1..Len(lastEvents') :
                      (/\ lastEvents'[k].name \in {"team_scored", "team_conceded"}
                       /\ lastEvents'[k].match = m.id) =>
                        /\ lastEvents'[k].home = FetchedScore(m, "home")
                        /\ lastEvents'[k].away = FetchedScore(m, "away")]_vars

\* the home side went from behind or level to 2-0 up in one cycle: one
\* team_scored to it, one team_conceded to the away side, both with 2-0
C18_Witness ==
  /\ Len(lastEvents) = 4
  /\ lastEvents[1].name = "team_scored"
  /\ lastEvents[1].teamId = 1
  /\ lastEvents[1].home = 2
  /\ lastEvents[1].away = 0
  /\ lastEvents[2].name = "team_conceded"
  /\ lastEvents[2].teamId = 2
  /\ lastEvents[2].home = 2
  /\ lastEvents[2].away = 0
  /\ lastEvents[3].name = "match_result_changed"
  /\ lastEvents[3].state = "winning"

TwoSidedNames == {"match_kickoff", "halftime_started", "second_half_started",
                  "match_finished", "match_starts_soon", "team_drew"}

\* how many events like e a cycle emitted to a team
CountLike(evs, e, teamId) ==
  Cardinality({j \in 1..Len(evs) : /\ evs[j].name = e.name
                                    /\ evs[j].match = e.match
                                    /\ evs[j].minutes = e.minutes
                                    /\ evs[j].teamId = teamId})

\* C19: an event is emitted for a team only if the team is a key of
\* trackedTeams when it is emitted; a two-sided event is emitted exactly once
\* for each tracked side of the match and not for an untracked side; so a team
\* unregistered while the fetch was in flight gets no event of that cycle.
C19_OnlyTrackedTeamsGetEvents ==
  /\ \A k \in 1..Len(lastEvents) : IsTracked(lastEvents[k].teamId)
  /\ \A k \in 1..Len(lastEvents), j \in 1..Len(lastFetch) :
       (lastEvents[k].name \in TwoSidedNames /\ lastFetch[j].id = lastEvents[k].match) =>
         \A side \in Sides :
           CountLike(lastEvents, lastEvents[k], SideTeam(lastFetch[j], side)) =
             IF IsTracked(SideTeam(lastFetch[j], side)) THEN 1 ELSE 0

\* only team 2 is tracked when the cycle finds the match at half time:
\* halftime_started is emitted once, to team 2
C19_Witness ==
  /\ DOMAIN trackedTeams = {"2"}
  /\ Len(lastEvents) = 1
  /\ lastEvents[1].name = "halftime_started"
  /\ lastEvents[1].teamId = 2
  /\ pollingState = "PAUSED"

\* the delay of each polling state
DelayOf(state) ==
  CASE state = "IDLE" -> 15 * MINUTE
    [] state = "PRE_MATCH" -> 5 * MINUTE
    [] state = "LIVE" -> 30 * 1000
    [] state = "PAUSED" -> 2 * MINUTE
    [] state = "POST_MATCH" -> 5 * MINUTE

\* C20: after every successful cycle the timer that pollTimer holds is armed
\* with the delay of the state that cycle computed: IDLE 15 min, PRE_MATCH
\* 5 min, LIVE 30 s, PAUSED 2 min, POST_MATCH 5 min.
C20_DelayOfComputedState ==
  [][lastFetch' # <<>> =>
       /\ \E i \in 1..Len(inflight) :
            /\ inflight' = RemoveAt(inflight, i)
            /\ pollingState' =
                 determinePollingState(
                   relevantMatches(lastFetch', inflight[i].trackedTeamIds), now)
       /\ [id |-> pollTimer', delay |-> DelayOf(pollingState')] \in timers'
       /\ \A h \in timers' \ timers : h.delay = DelayOf(pollingState')]_vars

\* a cycle after the estimated end of the match has computed POST_MATCH and
\* armed the 5 minute timer
C20_Witness ==
  /\ pollingState = "POST_MATCH"
  /\ lastFetch # <<>>
  /\ [id |-> pollTimer, delay |-> 300000] \in timers

\* the number of requests in the trailing window
InTrailingWindow == Len(cleanExpiredTimestamps(requestTimestamps, now))

\* C21: the fetch of a cycle is issued as high-priority if and only if
\* pollingState at the start of the cycle is LIVE; so with 8 or 9 requests in
\* the trailing window the fetch of a LIVE cycle is transmitted at once, and
\* the fetch of a cycle in any other state waits.
C21_HighPriorityIffLive ==
  [][Len(inflight') > Len(inflight) =>
       /\ inflight'[Len(inflight')].highPriority = (pollingState = "LIVE")
       /\ outcome' = "sent" =>
            recorded' = RecordRequest(recorded, now, pollingState = "LIVE")
       /\ outcome' = "waiting" =>
            sleepers'[Len(sleepers')].highPriority = (pollingState = "LIVE")
       /\ InTrailingWindow \in {8, 9} =>
            IF pollingState = "LIVE"
              THEN /\ outcome' = "sent"
                   /\ Len(requestTimestamps') = InTrailingWindow + 1
                   /\ sleepers' = sleepers
              ELSE /\ outcome' = "waiting"
                   /\ Len(requestTimestamps') = InTrailingWindow
                   /\ Len(sleepers') = Len(sleepers) + 1]_vars

\* the fetch of a LIVE cycle has just taken the tenth place of the window
C21_Witness ==
  /\ pollingState = "LIVE"
  /\ Len(inflight) = 1
  /\ inflight[1].highPriority
  /\ outcome = "sent"
  /\ Len(requestTimestamps) = 10
  /\ requestTimestamps[10] = now

\* seq1 is the beginning of seq2
IsPrefix(seq1, seq2) ==
  /\ Len(seq1) <= Len(seq2)
  /\ SubSeq(seq2, 1, Len(seq1)) = seq1

\* C22: the timestamp of a request is in the window from the moment the
\* request is transmitted and stays there while it is younger than 60 seconds,
\* whatever becomes of the HTTP call: neither the failure nor the success of a
\* cycle's fetch changes the window.
C22_FailedRequestKeepsQuota ==
  [][/\ outcome' \in {"sent", "sent after waiting"} /\ requestTimestamps' # requestTimestamps =>
          /\ requestTimestamps' # <<>>
          /\ requestTimestamps'[Len(requestTimestamps')] = now
     /\ IsPrefix(cleanExpiredTimestamps(requestTimestamps, now'),
                 cleanExpiredTimestamps(requestTimestamps', now'))
     /\ Len(inflight') < Len(inflight) => requestTimestamps' = requestTimestamps]_vars

\* the fetch of the first cycle has failed, the retry is armed, and the
\* timestamp of the failed request is still in the window 30 seconds later
C22_Witness ==
  /\ inflight = <<>>
  /\ [id |-> pollTimer, delay |-> RETRY_DELAY] \in timers
  /\ now = StartOfDay + 30000
  /\ requestTimestamps = <<StartOfDay>>
  /\ InTrailingWindow = 1

\* C23: a call of request() made while no API key is set fails at once: it
\* does not wait, appends no timestamp and transmits nothing, and the state of
\* the rate limiter is as before; the cycle that made it goes to its retry.
C23_NoKeyFailsFast ==
  [][apiKey = NoKey =>
       /\ Request(FALSE) =>
            /\ outcome' = "error"
            /\ UNCHANGED <<requestTimestamps, sleepers, recorded, sentKey, apiKey>>
       /\ \A h \in timers :
            (DOMAIN trackedTeams # {} /\ TimerFetch(h)) =>
              /\ outcome' = "error"
              /\ UNCHANGED <<requestTimestamps, sleepers, recorded, sentKey, apiKey>>
              /\ inflight' = inflight
              /\ [id |-> pollTimer', delay |-> RETRY_DELAY] \in timers']_vars

\* the key has been removed with requests in the window; a cycle has started
\* since, its request has failed and its retry is armed
C23_Witness ==
  /\ apiKey = NoKey
  /\ outcome = "error"
  /\ DOMAIN trackedTeams # {}
  /\ inflight = <<>>
  /\ [id |-> pollTimer, delay |-> RETRY_DELAY] \in timers
  /\ requestTimestamps # <<>>
  /\ sentKey = "k1"

\* C25: setApiKey(k) makes k the key and changes nothing else: not
\* pollingState, pollTimer, the pending timers, matchCache or the rate-limit
\* window, and no cycle starts; every request transmitted carries the key of
\* the moment of its transmission, so a request that was waiting for the
\* window when the key was replaced carries the new key.
C25_NextRequestUsesNewKey ==
  [][/\ \A key \in ApiKeys :
          setApiKey(key) =>
            /\ apiKey' = key
            /\ UNCHANGED <<pollingState, pollTimer, timers, inflight, matchCache,
                           trackedTeams, requestTimestamps, sleepers, recorded>>
     /\ recorded' # recorded => sentKey' = apiKey
     /\ outcome' = "sent after waiting, key replaced" /\ Len(sleepers') < Len(sleepers) =>
          /\ sentKey' = apiKey
          /\ \E k \in 1..Len(sleepers) : sleepers[k].entered # apiKey]_vars

\* a request that began to wait under the key k1 has been transmitted with
\* the key k2, which was set while it waited
C25_Witness ==
  /\ outcome = "sent after waiting, key replaced"
  /\ sentKey = "k2"
  /\ apiKey = "k2"
  /\ sleepers = <<>>
  /\ requestTimestamps = <<now>>

\* C24: doLoadTeamCache starts only when no load is in progress and the
\* directory is absent or expired, so callers that arrive during a load await
\* that load; when the load ends every caller that awaited it returns its
\* directory and the marker of the load in progress is cleared; a call made
\* while the directory is valid, during the 24 hours after a load, returns
\* the directory without a request and without a load.
C24_OneLoadForAllCallers ==
  [][/\ loadRuns' # loadRuns =>
          /\ cacheLoadingPromise = NoPromise
          /\ loading = NoLoad
          /\ ~cacheValid
     /\ (loading' # NoLoad) = (cacheLoadingPromise' # NoPromise)
     /\ (cacheLoadingPromise # NoPromise /\ cacheLoadingPromise' # NoPromise) =>
          /\ cacheLoadingPromise' = cacheLoadingPromise
          /\ awaiting' >= awaiting
     /\ (loading # NoLoad /\ loading' = NoLoad) =>
          /\ cacheLoadingPromise' = NoPromise
          /\ returned' = [n |-> awaiting, value |-> teamCache', load |-> cacheLoadingPromise]
          /\ awaiting' = 0
          /\ teamCacheExpiry' = now + DAY
     /\ (cacheValid /\ loadTeamCache) =>
          /\ returned' = [n |-> 1, value |-> teamCache, load |-> NoPromise]
          /\ UNCHANGED <<teamCache, teamCacheExpiry, cacheLoadingPromise, loading,
                         loadRuns, requestTimestamps, recorded>>]_vars

\* the reload after the expiry of the directory has ended: the two callers
\* that awaited it have both got the directory of that load
C24_Witness ==
  /\ loadRuns = 2
  /\ returned = [n |-> 2, value |-> {"PL", "BL1"}, load |-> 2]
  /\ cacheLoadingPromise = NoPromise
  /\ teamCache = {"PL", "BL1"}

\* C26: in every reachable state at most one poll timer is pending, and a
\* pending timer is the one pollTimer holds, so that stopPolling cancels
\* every pending timer.
C26_OnePendingTimer ==
  /\ Cardinality(timers) <= 1
  /\ \A h \in timers : h.id = pollTimer

\* C27: when a call of this.emit throws while a match is processed, the cache
\* entry and the markers of that match are as they were before the cycle.
C27_ThrowLeavesCacheUntouched ==
  [][\A i \in 1..Len(inflight), f \in ThrowFetches, k \in 1..MaxEmits :
       PollThrows(i, f, k) => matchCache' = matchCache]_vars

\* C28: a marker that has been true in the cache entry of a match is true in
\* every later state in which the cache holds an entry for that match.
C28_MarkersNeverRevert ==
  \A km \in everMarked :
    km[1] \in DOMAIN matchCache => matchCache[km[1]].events[km[2]]

\* the cache entries a query for the team may return
EntriesOf(teamId, statuses) ==
  {matchCache[id] : id \in {k \in DOMAIN matchCache :
      /\ matchCache[k].status \in statuses
      /\ \/ matchCache[k].homeTeamId = Number(teamId)
         \/ matchCache[k].awayTeamId = Number(teamId)}}

\* what the last query returned is an entry of its team (a live one for
\* getTeamLiveMatch), or null when the cache has no such entry
QueryAnswered ==
  queryArg # NoQuery =>
    LET right == EntriesOf(queryArg.teamId,
                           IF queryArg.fn = "getTeamLiveMatch"
                             THEN {"IN_PLAY", "PAUSED"} ELSE MATCH_STATUS)
    IN IF right = {} THEN queryResult = NoResult ELSE queryResult \in right

\* C29: getTeamLiveMatch and getTeamMatchToday make no request and change
\* nothing (matchCache, rate-limit window, pollingState, pollTimer);
\* getTeamLiveMatch returns a cache entry only if it is IN_PLAY or PAUSED and
\* the team is one of its sides, getTeamMatchToday only if the team is one of
\* its sides, and each returns null when there is no such entry.
C29_QueriesReadOnly ==
  [][\A fn \in QueryFns, teamId \in TeamIdStrings :
       Query(fn, teamId) =>
         /\ UNCHANGED <<matchCache, requestTimestamps, recorded, sleepers, pollingState,
                        pollTimer, timers, inflight, trackedTeams>>
         /\ QueryAnswered']_vars

\* team 1 has a finished match and a match at half time in the cache:
\* getTeamLiveMatch has returned the one at half time
C29_Witness ==
  /\ queryArg = [fn |-> "getTeamLiveMatch", teamId |-> "1"]
  /\ DOMAIN matchCache = QueryIds
  /\ matchCache[TodayMatchId].status = "FINISHED"
  /\ matchCache[TodayMatchId + 1].status = "PAUSED"
  /\ queryResult = matchCache[TodayMatchId + 1]

\* the events of the cycle are the event of that name for each tracked side
\* of the match, home side first
EmittedToSides(name) ==
  lastEvents' = emitForTeams(trackedTeams, name, lastFetch'[1])

\* the markers of the match after the cycle are those before it with the
\* given one set
MarkerSet(marker) ==
  matchCache'[TodayMatchId].events =
    [matchCache[TodayMatchId].events EXCEPT ![marker] = TRUE]

NothingEmittedNorMarked ==
  /\ lastEvents' = <<>>
  /\ matchCache'[TodayMatchId].events = matchCache[TodayMatchId].events

\* C30: when a cached match changes to IN_PLAY, match_kickoff is emitted and
\* kickoffTriggered set if the cached status is SCHEDULED or TIMED and
\* kickoffTriggered is false; second_half_started is emitted and
\* secondHalfTriggered set if the cached status is PAUSED and
\* secondHalfTriggered is false; from any other cached status nothing is
\* emitted and no marker changes.  When it changes to PAUSED, from any
\* status, halftime_started is emitted (and halftimeTriggered set) if and
\* only if halftimeTriggered is false.
C30_StatusChangeEvents ==
  [][(/\ lastFetch' # <<>>
      /\ TodayMatchId \in DOMAIN matchCache
      /\ matchCache[TodayMatchId].status # lastFetch'[1].status) =>
       LET cached == matchCache[TodayMatchId]
           status == lastFetch'[1].status
       IN /\ status = "IN_PLAY" =>
               IF cached.status \in {"SCHEDULED", "TIMED"} /\ ~cached.events.kickoffTriggered
                 THEN EmittedToSides("match_kickoff") /\ MarkerSet("kickoffTriggered")
               ELSE IF cached.status = "PAUSED" /\ ~cached.events.secondHalfTriggered
                 THEN EmittedToSides("second_half_started")
                        /\ MarkerSet("secondHalfTriggered")
               ELSE NothingEmittedNorMarked
          /\ status = "PAUSED" =>
               IF ~cached.events.halftimeTriggered
                 THEN EmittedToSides("halftime_started") /\ MarkerSet("halftimeTriggered")
                 ELSE NothingEmittedNorMarked]_vars

\* the second half has been announced to a tracked side, after a half time
\* that was itself announced by a status change
C30_Witness ==
  /\ lastFetch # <<>>
  /\ lastFetch[1].status = "IN_PLAY"
  /\ \E j \in 1..Len(lastEvents) : lastEvents[j].name = "second_half_started"
  /\ matchCache[TodayMatchId].events.secondHalfTriggered
  /\ matchCache[TodayMatchId].events.halftimeTriggered
  /\ matchCache[TodayMatchId].events.kickoffTriggered

\* the cycle that ends in this step has emitted match_starts_soon with the
\* given minutes
SoonEmitted(T) ==
  \E j \in 1..Len(lastEvents') :
    /\ lastEvents'[j].name = "match_starts_soon"
    /\ lastEvents'[j].match = lastFetch'[1].id
    /\ lastEvents'[j].minutes = T

\* C31: in a cycle, for a relevant match and a threshold T of 15, 30, 60,
\* 120: match_starts_soon with minutes = T is emitted if and only if the
\* match is SCHEDULED or TIMED, the time until kickoff is in (0, T] minutes
\* and T is not recorded for the match; T is then recorded.  A match in
\* another status or with its kickoff at or before now fires nothing.
C31_StartsSoonThresholds ==
  [][lastFetch' # <<>> =>
       LET match == lastFetch'[1]
           untilMs == match.utcDate - now
           before == IF match.id \in DOMAIN matchStartsSoonTriggered
                       THEN matchStartsSoonTriggered[match.id] ELSE {}
       IN \A T \in {15, 30, 60, 120} :
            /\ SoonEmitted(T) <=>
                 /\ match.status \in {"SCHEDULED", "TIMED"}
                 /\ untilMs > 0
                 /\ untilMs <= T * 60000
                 /\ T \notin before
            /\ SoonEmitted(T) =>
                 /\ match.id \in DOMAIN matchStartsSoonTriggered'
                 /\ T \in matchStartsSoonTriggered'[match.id]]_vars

\* a first cycle 15 minutes before the kickoff has emitted all four
\* thresholds at once
C31_Witness ==
  /\ now = Kickoff - 15 * MINUTE
  /\ lastFetch # <<>>
  /\ {lastEvents[j].minutes : j \in {i \in 1..Len(lastEvents) :
                                       lastEvents[i].name = "match_starts_soon"}}
       = {15, 30, 60, 120}
  /\ matchStartsSoonTriggered[TodayMatchId] = {15, 30, 60, 120}

\* finished or awarded, and kickoff plus 2 hours plus 2 hours before now
OldEnough(status, utcDate) ==
  /\ status \in {"FINISHED", "AWARDED"}
  /\ utcDate + 2 * 3600000 + 2 * 3600000 < now

\* the status cleanupOldMatches finds in the entry of the match: the
\* fetched one if the list of this cycle has the match, the cached one if
\* it has not
StatusAtCleanup(id) ==
  IF lastFetch' # <<>> /\ lastFetch'[1].id = id
    THEN lastFetch'[1].status
    ELSE matchCache[id].status

\* C32: cleanupOldMatches removes a cache entry if and only if its status is
\* FINISHED or AWARDED and its kickoff plus 2 hours plus 2 hours lies
\* strictly before now; an entry in another status, such as IN_PLAY or
\* PAUSED for a match the list no longer has, stays as it is, and
\* getTeamLiveMatch returns it.
C32_CleanupOnlyOldFinished ==
  [][/\ \A id \in DOMAIN matchCache :
          /\ id \notin DOMAIN matchCache' =>
               /\ Len(inflight') < Len(inflight)
               /\ OldEnough(StatusAtCleanup(id), matchCache[id].utcDate)
          /\ (Len(inflight') < Len(inflight)
                /\ OldEnough(StatusAtCleanup(id), matchCache[id].utcDate))
               => id \notin DOMAIN matchCache'
          /\ (Len(inflight') < Len(inflight) /\ lastFetch' = <<>>
                /\ matchCache[id].status \notin {"FINISHED", "AWARDED"})
               => /\ id \in DOMAIN matchCache'
                  /\ matchCache'[id] = matchCache[id]
     /\ Len(inflight') < Len(inflight) =>
          \A id \in DOMAIN matchCache' :
            ~OldEnough(matchCache'[id].status, matchCache'[id].utcDate)
     /\ (queryArg' # queryArg \/ queryResult' # queryResult) =>
          \A id \in DOMAIN matchCache :
            matchCache[id].status \in {"IN_PLAY", "PAUSED"}
              => queryResult' = matchCache[id]]_vars

\* five hours after the kickoff the list of the day is without the match,
\* the engine is IDLE, and getTeamLiveMatch returns the entry that is still
\* IN_PLAY
C32_Witness ==
  /\ now = Kickoff + 5 * HOUR
  /\ pollingState = "IDLE"
  /\ TodayMatchId \in DOMAIN matchCache
  /\ matchCache[TodayMatchId].status = "IN_PLAY"
  /\ queryResult = matchCache[TodayMatchId]

\* the names of the events of the cycle that ends in this step
NamesEmitted == {lastEvents'[j].name : j \in 1..Len(lastEvents')}

\* the entry of the match after the cycle holds what the list of the cycle
\* says, and the markers of before together with those of the events emitted
EntryIsFresh ==
  LET match == lastFetch'[1]
      entry == matchCache'[match.id]
  IN /\ entry.status = match.status
     /\ entry.homeScore = (IF match.home = -1 THEN 0 ELSE match.home)
     /\ entry.awayScore = (IF match.away = -1 THEN 0 ELSE match.away)
     /\ entry.minute = (IF "minute" \in DOMAIN match THEN match.minute ELSE 0)
     /\ match.id \in DOMAIN matchCache =>
          \A marker \in DOMAIN entry.events :
            matchCache[match.id].events[marker] => entry.events[marker]
     /\ "match_kickoff" \in NamesEmitted => entry.events.kickoffTriggered
     /\ "halftime_started" \in NamesEmitted => entry.events.halftimeTriggered
     /\ "second_half_started" \in NamesEmitted => entry.events.secondHalfTriggered
     /\ "match_finished" \in NamesEmitted => entry.events.finishedTriggered

\* C33: after a cycle has handled a match, new or cached, the cache entry
\* of its id holds the fetched status, scores and minute and the markers as
\* they are after the emissions of the cycle; so a cycle that gets the same
\* list as the cycle before it emits no status event and no score event.
C33_SameSnapshotSilent ==
  [][/\ (lastFetch' # <<>> /\ lastFetch'[1].id \in DOMAIN matchCache') => EntryIsFresh
     /\ (lastFetch' # <<>> /\ lastFetch' = prevFetch) =>
          NamesEmitted \subseteq {"match_starts_soon"}]_vars

\* C34: in every state reached through registerDevice, unregisterDevice,
\* timer expiry and the completion of a cycle, by success or by failure, a
\* tracked team has a cycle to come: a poll cycle is in progress or a poll
\* timer is pending.
C34_TrackedTeamHasFutureCycle ==
  DOMAIN trackedTeams # {} => (inflight # <<>> \/ timers # {})

\* a team is tracked and the only thing that keeps the loop alive is the
\* retry armed by a cycle that failed
C34_Witness ==
  /\ DOMAIN trackedTeams # {}
  /\ inflight = <<>>
  /\ timers = {[id |-> pollTimer, delay |-> 60000]}

\* the quota of a caller: 10 for a high-priority one, 8 for the others
QuotaOf(highPriority) == IF highPriority THEN 10 ELSE 8

\* a caller whose sleep ends is transmitted in that step only if the window
\* is below its quota then, and sleeps again if it is not
WaitLoopRechecks ==
  [][\A k \in 1..Len(sleepers) :
       Wake(k) =>
         IF InTrailingWindow < QuotaOf(sleepers[k].highPriority)
           THEN /\ Len(sleepers') = Len(sleepers) - 1
                /\ requestTimestamps'[Len(requestTimestamps')] = now
           ELSE /\ Len(sleepers') = Len(sleepers)
                /\ sleepers'[Len(sleepers')].wake > now
                /\ Len(requestTimestamps') = InTrailingWindow]_vars

\* C35: a request() that finds the window at or over its quota tests again
\* after each wait and is not transmitted until the window is below its
\* quota; when time advances and only finitely many other requests are
\* issued, every request with a key is transmitted in the end.
C35_WaitLoopTerminates ==
  /\ WaitLoopRechecks
  /\ (sleepers # <<>>) ~> (sleepers = <<>>)

\* a caller that found the window full of the requests of the second minute
\* has slept until they left it and has then been transmitted
C35_Witness ==
  /\ outcome = "sent after waiting"
  /\ now >= StartOfDay + 120100
  /\ sleepers = <<>>
  /\ requestTimestamps = <<now>>

\* the list has a SCHEDULED or TIMED match whose kickoff is at most 120
\* minutes in the past and at most 2 hours in the future
KickoffNear(matches, t) ==
  \E i \in 1..Len(matches) :
    /\ matches[i].status \in {"SCHEDULED", "TIMED"}
    /\ matches[i].utcDate >= t - 120 * 60000
    /\ matches[i].utcDate <= t + 2 * 3600000

\* C36: determinePollingState does not return IDLE for a list with a
\* SCHEDULED or TIMED match whose kickoff lies in the closed interval from
\* 120 minutes before now to 2 hours after now, the instants kickoff = now
\* and kickoff = now - 120 minutes included.
C36_NeverIdleNearKickoff ==
  (dpsResult # "" /\ KickoffNear(dpsMatches, now)) => dpsResult # "IDLE"

\* C37: doLoadTeamCache comes to its end whatever the upstream calls do: a
\* call that fails takes the loop to the next competition or out of it, and
\* the end of the loop stores the directory, empty when every call failed,
\* with an expiry of 24 hours; a loadTeamCache call before that expiry
\* returns the empty directory without a load and without a request.
C37_EmptyDirectoryIsCached ==
  [][/\ (loading # NoLoad /\ loading' # loading) =>
          \/ /\ loading' = NoLoad
             /\ teamCache' # NoCache
             /\ teamCacheExpiry' = now + 24 * 3600000
             /\ returned'.value = teamCache'
          \/ /\ loading' # NoLoad
             /\ \/ loading'.next > loading.next
                \/ /\ loading'.next = loading.next
                   /\ loading.phase = "sleep"
                   /\ loading'.phase = "request"
     /\ (\E kind \in {"error", "rate limit"} : LoadResponse(kind)) =>
          teamCache' = teamCache
     /\ (/\ loadTeamCache
         /\ teamCache = {}
         /\ loading = NoLoad
         /\ teamCacheExpiry # NoExpiry
         /\ now < teamCacheExpiry) =>
          /\ returned' = [n |-> 1, value |-> {}, load |-> NoPromise]
          /\ UNCHANGED <<teamCache, teamCacheExpiry, cacheLoadingPromise, loading,
                         loadRuns, requestTimestamps, recorded>>]_vars

\* every call of the one load has failed, and a caller a millisecond
\* before the expiry has got the empty directory
C37_Witness ==
  /\ loadRuns = 1
  /\ teamCache = {}
  /\ teamCacheExpiry = StartOfDay + DAY
  /\ now = StartOfDay + DAY - 1
  /\ loading = NoLoad
  /\ returned = [n |-> 1, value |-> {}, load |-> NoPromise]

====
